---------------------------- MODULE Spec2Model ----------------------------
(***************************************************************************)
(* The structured field extraction pipeline of the Factbook archive:       *)
(*   etl/build_field_mappings.py               the Field Name Canonicalizer*)
(*   etl/structured_parsing/parse_field_values.py   the extractors and the *)
(*                                             extraction batch (main)     *)
(*                                                                         *)
(* Text is modelled character by character: a Python str is a sequence of  *)
(* one-character strings, so "total" is <<"t","o","t","a","l">>.  Every    *)
(* regular expression of the source is an operator that computes the match *)
(* Python's re module computes on such a sequence.  An optional value      *)
(* (None or a value) is the empty tuple or a one-element tuple.            *)
(***************************************************************************)
EXTENDS Integers, Sequences, FiniteSets, TLC

VARIABLES
  fields,         \* CountryFields joined with Countries: the input records, in table order
  mappings,       \* the FieldNameMappings table
  store,          \* the FieldValues table, in insertion order
  pc,             \* position of the pipeline driver
  run,            \* number of the current pipeline run
  canonical_map,  \* main: canonical_map
  idx,            \* main: how many records of the read order are processed
  batch,          \* main: batch
  calls,          \* history: the extractor invoked for each record of this run
  produced,       \* history: every row main has appended to batch in this run
  firstOut,       \* history: the FieldValues table when the first run completed
  args,           \* arguments of one apply_rules call
  ret,            \* what that call returned
  log             \* main: the lines it has written to standard output in this run

vars == <<fields, mappings, store, pc, run, canonical_map, idx, batch, calls,
          produced, firstOut, args, ret, log>>

-----------------------------------------------------------------------------
(* Optional values *)
\* x bound to a name in the scope of F, as an assignment binds the value of an expression
With(x, F(_)) == F(x)

None == <<>>
Some(x) == <<x>>
IsSome(o) == o # <<>>
Get(o) == o[1]

(* Characters and character classes (ASCII) *)
Letters == <<"a","b","c","d","e","f","g","h","i","j","k","l","m",
             "n","o","p","q","r","s","t","u","v","w","x","y","z">>
Capitals == <<"A","B","C","D","E","F","G","H","I","J","K","L","M",
              "N","O","P","Q","R","S","T","U","V","W","X","Y","Z">>
LowerSet == {Letters[k] : k \in 1..26}
UpperSet == {Capitals[k] : k \in 1..26}
AlphaSet == LowerSet \cup UpperSet
DigitSet == {"0","1","2","3","4","5","6","7","8","9"}
SpaceSet == {" ", "\t", "\n", "\r"}

\* str.lower() of one character
LowerC(c) == IF c \in UpperSet THEN Letters[CHOOSE k \in 1..26 : Capitals[k] = c] ELSE c

\* str.lower()
LowerStr(s) == [i \in 1..Len(s) |-> LowerC(s[i])]

MinOf(S) == CHOOSE x \in S : \A y \in S : x <= y
MaxOf(S) == CHOOSE x \in S : \A y \in S : x >= y

\* s[i:j] of Python with 1-based inclusive bounds; empty when j < i
Sub(s, i, j) == IF j < i THEN <<>> ELSE SubSeq(s, i, j)

\* s[:n]
Take(s, n) == IF Len(s) <= n THEN s ELSE SubSeq(s, 1, n)

\* the literal lit occurs in s at position i
StartsAt(s, i, lit) ==
  /\ i >= 1
  /\ i + Len(lit) - 1 <= Len(s)
  /\ \A k \in 1..Len(lit) : s[i + k - 1] = lit[k]

\* the same under re.IGNORECASE
StartsAtCI(s, i, lit) ==
  /\ i >= 1
  /\ i + Len(lit) - 1 <= Len(s)
  /\ \A k \in 1..Len(lit) : LowerC(s[i + k - 1]) = LowerC(lit[k])

\* lit in s
Contains(s, lit) == \E i \in 1..(Len(s) + 1) : StartsAt(s, i, lit)

\* s.startswith(lit), s.endswith(lit)
StartsWith(s, lit) == StartsAt(s, 1, lit)
EndsWith(s, lit) == Len(lit) <= Len(s) /\ StartsAt(s, Len(s) - Len(lit) + 1, lit)

\* a greedy run X* of the class C from position i: the position after the run
Span(s, i, C) ==
  LET stops == {j \in i..Len(s) : s[j] \notin C}
  IN  IF stops = {} THEN (IF i > Len(s) THEN i ELSE Len(s) + 1) ELSE MinOf(stops)

\* str.strip()
Strip(s) ==
  LET keep == {i \in 1..Len(s) : s[i] \notin SpaceSet}
  IN  IF keep = {} THEN <<>> ELSE SubSeq(s, MinOf(keep), MaxOf(keep))

-----------------------------------------------------------------------------
(* etl/build_field_mappings.py: the rule tables *)

KNOWN_RENAMES ==
  {
    <<<<"A","g","r","i","c","u","l","t","u","r","e">>,
      <<"A","g","r","i","c","u","l","t","u","r","a","l"," ","p","r","o","d","u","c","t","s">>>>,
    <<<<"C","o","m","p","a","r","a","t","i","v","e"," ","a","r","e","a">>,
      <<"A","r","e","a"," ","-"," ","c","o","m","p","a","r","a","t","i","v","e">>>>,
    <<<<"T","o","t","a","l"," ","a","r","e","a">>,
      <<"A","r","e","a">>>>,
    <<<<"E","t","h","n","i","c"," ","d","i","v","i","s","i","o","n","s">>,
      <<"E","t","h","n","i","c"," ","g","r","o","u","p","s">>>>,
    <<<<"L","a","n","g","u","a","g","e">>,
      <<"L","a","n","g","u","a","g","e","s">>>>,
    <<<<"R","e","l","i","g","i","o","n">>,
      <<"R","e","l","i","g","i","o","n","s">>>>,
    <<<<"D","i","s","p","u","t","e","s">>,
      <<"D","i","s","p","u","t","e","s"," ","-"," ","i","n","t","e","r","n","a","t","i","o","n","a","l">>>>,
    <<<<"I","n","t","e","r","n","a","t","i","o","n","a","l"," ","d","i","s","p","u","t","e","s">>,
      <<"D","i","s","p","u","t","e","s"," ","-"," ","i","n","t","e","r","n","a","t","i","o","n","a","l">>>>,
    <<<<"E","n","v","i","r","o","n","m","e","n","t">>,
      <<"E","n","v","i","r","o","n","m","e","n","t"," ","-"," ","c","u","r","r","e","n","t"," ","i","s","s","u","e","s">>>>,
    <<<<"T","y","p","e">>,
      <<"G","o","v","e","r","n","m","e","n","t"," ","t","y","p","e">>>>,
    <<<<"T","y","p","e"," ","o","f"," ","g","o","v","e","r","n","m","e","n","t">>,
      <<"G","o","v","e","r","n","m","e","n","t"," ","t","y","p","e">>>>,
    <<<<"L","e","a","d","e","r","s">>,
      <<"E","x","e","c","u","t","i","v","e"," ","b","r","a","n","c","h">>>>,
    <<<<"B","r","a","n","c","h","e","s">>,
      <<"M","i","l","i","t","a","r","y"," ","a","n","d"," ","s","e","c","u","r","i","t","y"," ","f","o","r","c","e","s">>>>,
    <<<<"O","v","e","r","v","i","e","w">>,
      <<"E","c","o","n","o","m","i","c"," ","o","v","e","r","v","i","e","w">>>>,
    <<<<"T","e","l","e","c","o","m","m","u","n","i","c","a","t","i","o","n","s">>,
      <<"T","e","l","e","c","o","m","m","u","n","i","c","a","t","i","o","n"," ","s","y","s","t","e","m","s">>>>,
    <<<<"R","a","i","l","r","o","a","d","s">>,
      <<"R","a","i","l","w","a","y","s">>>>,
    <<<<"H","i","g","h","w","a","y","s">>,
      <<"R","o","a","d","w","a","y","s">>>>,
    <<<<"O","r","g","a","n","i","z","e","d"," ","l","a","b","o","r">>,
      <<"O","r","g","a","n","i","z","e","d"," ","l","a","b","o","r">>>>,
    <<<<"N","a","t","i","o","n","a","l"," ","p","r","o","d","u","c","t">>,
      <<"R","e","a","l"," ","G","D","P"," ","(","p","u","r","c","h","a","s","i","n","g"," ","p","o","w","e","r"," ","p","a","r","i","t","y",")">>>>,
    <<<<"N","a","t","i","o","n","a","l"," ","p","r","o","d","u","c","t"," ","p","e","r"," ","c","a","p","i","t","a">>,
      <<"R","e","a","l"," ","G","D","P"," ","p","e","r"," ","c","a","p","i","t","a">>>>,
    <<<<"N","a","t","i","o","n","a","l"," ","p","r","o","d","u","c","t"," ","r","e","a","l"," ","g","r","o","w","t","h"," ","r","a","t","e">>,
      <<"R","e","a","l"," ","G","D","P"," ","g","r","o","w","t","h"," ","r","a","t","e">>>>,
    <<<<"U","S"," ","d","i","p","l","o","m","a","t","i","c"," ","r","e","p","r","e","s","e","n","t","a","t","i","o","n">>,
      <<"D","i","p","l","o","m","a","t","i","c"," ","r","e","p","r","e","s","e","n","t","a","t","i","o","n"," ","f","r","o","m"," ","t","h","e"," ","U","S">>>>,
    <<<<"D","i","p","l","o","m","a","t","i","c"," ","r","e","p","r","e","s","e","n","t","a","t","i","o","n"," ","i","n"," ","U","S">>,
      <<"D","i","p","l","o","m","a","t","i","c"," ","r","e","p","r","e","s","e","n","t","a","t","i","o","n"," ","i","n"," ","t","h","e"," ","U","S">>>>,
    <<<<"C","i","v","i","l"," ","a","i","r">>,
      <<"C","i","v","i","l"," ","a","i","r">>>>,
    <<<<"A","i","r","f","i","e","l","d">>,
      <<"A","i","r","p","o","r","t","s">>>>,
    <<<<"A","i","r","p","o","r","t">>,
      <<"A","i","r","p","o","r","t","s">>>>,
    <<<<"D","e","f","e","n","s","e"," ","e","x","p","e","n","d","i","t","u","r","e","s">>,
      <<"M","i","l","i","t","a","r","y"," ","e","x","p","e","n","d","i","t","u","r","e","s">>>>,
    <<<<"U","n","e","m","p","l","o","y","m","e","n","t">>,
      <<"U","n","e","m","p","l","o","y","m","e","n","t"," ","r","a","t","e">>>>,
    <<<<"T","e","l","e","v","i","s","i","o","n">>,
      <<"B","r","o","a","d","c","a","s","t"," ","m","e","d","i","a">>>>,
    <<<<"T","e","l","e","v","i","s","i","o","n","s">>,
      <<"T","e","l","e","v","i","s","i","o","n","s">>>>,
    <<<<"A","i","d">>,
      <<"A","i","d">>>>,
    <<<<"D","i","p","l","o","m","a","t","i","c"," ","r","e","p","r","e","s","e","n","t","a","t","i","o","n">>,
      <<"D","i","p","l","o","m","a","t","i","c"," ","r","e","p","r","e","s","e","n","t","a","t","i","o","n"," ","i","n"," ","t","h","e"," ","U","S">>>>,
    <<<<"L","a","n","d"," ","a","r","e","a">>,
      <<"A","r","e","a">>>>,
    <<<<"T","e","r","r","i","t","o","r","i","a","l"," ","s","e","a">>,
      <<"M","a","r","i","t","i","m","e"," ","c","l","a","i","m","s">>>>,
    <<<<"E","c","o","n","o","m","y"," ","-"," ","o","v","e","r","v","i","e","w">>,
      <<"E","c","o","n","o","m","i","c"," ","o","v","e","r","v","i","e","w">>>>,
    <<<<"A","g","r","i","c","u","l","t","u","r","e"," ","-"," ","p","r","o","d","u","c","t","s">>,
      <<"A","g","r","i","c","u","l","t","u","r","a","l"," ","p","r","o","d","u","c","t","s">>>>,
    <<<<"G","D","P"," ","(","p","u","r","c","h","a","s","i","n","g"," ","p","o","w","e","r"," ","p","a","r","i","t","y",")">>,
      <<"R","e","a","l"," ","G","D","P"," ","(","p","u","r","c","h","a","s","i","n","g"," ","p","o","w","e","r"," ","p","a","r","i","t","y",")">>>>,
    <<<<"G","D","P"," ","-"," ","r","e","a","l"," ","g","r","o","w","t","h"," ","r","a","t","e">>,
      <<"R","e","a","l"," ","G","D","P"," ","g","r","o","w","t","h"," ","r","a","t","e">>>>,
    <<<<"G","D","P"," ","r","e","a","l"," ","g","r","o","w","t","h"," ","r","a","t","e">>,
      <<"R","e","a","l"," ","G","D","P"," ","g","r","o","w","t","h"," ","r","a","t","e">>>>,
    <<<<"G","D","P"," ","-"," ","p","e","r"," ","c","a","p","i","t","a">>,
      <<"R","e","a","l"," ","G","D","P"," ","p","e","r"," ","c","a","p","i","t","a">>>>,
    <<<<"G","D","P"," ","-"," ","p","e","r"," ","c","a","p","i","t","a"," ","(","P","P","P",")">>,
      <<"R","e","a","l"," ","G","D","P"," ","p","e","r"," ","c","a","p","i","t","a">>>>,
    <<<<"G","D","P"," ","p","e","r"," ","c","a","p","i","t","a">>,
      <<"R","e","a","l"," ","G","D","P"," ","p","e","r"," ","c","a","p","i","t","a">>>>,
    <<<<"G","D","P">>,
      <<"R","e","a","l"," ","G","D","P"," ","(","p","u","r","c","h","a","s","i","n","g"," ","p","o","w","e","r"," ","p","a","r","i","t","y",")">>>>,
    <<<<"G","D","P"," ","c","o","m","p","o","s","i","t","i","o","n"," ","b","y"," ","s","e","c","t","o","r">>,
      <<"G","D","P"," ","-"," ","c","o","m","p","o","s","i","t","i","o","n",","," ","b","y"," ","s","e","c","t","o","r"," ","o","f"," ","o","r","i","g","i","n">>>>,
    <<<<"G","D","P"," ","-"," ","c","o","m","p","o","s","i","t","i","o","n"," ","b","y"," ","s","e","c","t","o","r">>,
      <<"G","D","P"," ","-"," ","c","o","m","p","o","s","i","t","i","o","n",","," ","b","y"," ","s","e","c","t","o","r"," ","o","f"," ","o","r","i","g","i","n">>>>,
    <<<<"E","l","e","v","a","t","i","o","n"," ","e","x","t","r","e","m","e","s">>,
      <<"E","l","e","v","a","t","i","o","n">>>>,
    <<<<"T","e","l","e","p","h","o","n","e"," ","s","y","s","t","e","m">>,
      <<"T","e","l","e","c","o","m","m","u","n","i","c","a","t","i","o","n"," ","s","y","s","t","e","m","s">>>>,
    <<<<"T","e","l","e","p","h","o","n","e","s"," ","-"," ","m","a","i","n"," ","l","i","n","e","s"," ","i","n"," ","u","s","e">>,
      <<"T","e","l","e","p","h","o","n","e","s"," ","-"," ","f","i","x","e","d"," ","l","i","n","e","s">>>>,
    <<<<"T","e","l","e","p","h","o","n","e","s">>,
      <<"T","e","l","e","p","h","o","n","e","s"," ","-"," ","f","i","x","e","d"," ","l","i","n","e","s">>>>,
    <<<<"t","e","l","e","p","h","o","n","e">>,
      <<"T","e","l","e","p","h","o","n","e","s"," ","-"," ","f","i","x","e","d"," ","l","i","n","e","s">>>>,
    <<<<"D","i","s","t","r","i","b","u","t","i","o","n"," ","o","f"," ","f","a","m","i","l","y"," ","i","n","c","o","m","e"," ","-"," ","G","i","n","i"," ","i","n","d","e","x">>,
      <<"G","i","n","i"," ","I","n","d","e","x"," ","c","o","e","f","f","i","c","i","e","n","t"," ","-"," ","d","i","s","t","r","i","b","u","t","i","o","n"," ","o","f"," ","f","a","m","i","l","y"," ","i","n","c","o","m","e">>>>,
    <<<<"U","n","e","m","p","l","o","y","m","e","n","t",","," ","y","o","u","t","h"," ","a","g","e","s"," ","1","5","-","2","4">>,
      <<"Y","o","u","t","h"," ","u","n","e","m","p","l","o","y","m","e","n","t"," ","r","a","t","e"," ","(","a","g","e","s"," ","1","5","-","2","4",")">>>>,
    <<<<"M","i","l","i","t","a","r","y"," ","b","r","a","n","c","h","e","s">>,
      <<"M","i","l","i","t","a","r","y"," ","a","n","d"," ","s","e","c","u","r","i","t","y"," ","f","o","r","c","e","s">>>>,
    <<<<"M","a","t","e","r","n","a","l"," ","m","o","r","t","a","l","i","t","y"," ","r","a","t","e">>,
      <<"M","a","t","e","r","n","a","l"," ","m","o","r","t","a","l","i","t","y"," ","r","a","t","i","o">>>>,
    <<<<"P","h","y","s","i","c","i","a","n","s"," ","d","e","n","s","i","t","y">>,
      <<"P","h","y","s","i","c","i","a","n"," ","d","e","n","s","i","t","y">>>>,
    <<<<"R","a","d","i","o"," ","b","r","o","a","d","c","a","s","t"," ","s","t","a","t","i","o","n","s">>,
      <<"B","r","o","a","d","c","a","s","t"," ","m","e","d","i","a">>>>,
    <<<<"T","e","l","e","v","i","s","i","o","n"," ","b","r","o","a","d","c","a","s","t"," ","s","t","a","t","i","o","n","s">>,
      <<"B","r","o","a","d","c","a","s","t"," ","m","e","d","i","a">>>>,
    <<<<"T","e","l","e","v","i","s","i","o","n","-","b","r","o","a","d","c","a","s","t"," ","s","t","a","t","i","o","n","s">>,
      <<"B","r","o","a","d","c","a","s","t"," ","m","e","d","i","a">>>>,
    <<<<"R","a","d","i","o">>,
      <<"B","r","o","a","d","c","a","s","t"," ","m","e","d","i","a">>>>,
    <<<<"R","a","d","i","o","s">>,
      <<"R","a","d","i","o","s">>>>,
    <<<<"E","n","v","i","r","o","n","m","e","n","t"," ","-"," ","i","n","t","e","r","n","a","t","i","o","n","a","l"," ","a","g","r","e","e","m","e","n","t","s">>,
      <<"I","n","t","e","r","n","a","t","i","o","n","a","l"," ","e","n","v","i","r","o","n","m","e","n","t","a","l"," ","a","g","r","e","e","m","e","n","t","s">>>>,
    <<<<"P","o","r","t","s"," ","a","n","d"," ","t","e","r","m","i","n","a","l","s">>,
      <<"P","o","r","t","s">>>>,
    <<<<"P","o","r","t","s"," ","a","n","d"," ","h","a","r","b","o","r","s">>,
      <<"P","o","r","t","s">>>>,
    <<<<"N","a","t","i","o","n","a","l"," ","a","n","t","h","e","m">>,
      <<"N","a","t","i","o","n","a","l"," ","a","n","t","h","e","m","(","s",")">>>>,
    <<<<"P","o","l","i","t","i","c","a","l"," ","p","a","r","t","i","e","s"," ","a","n","d"," ","l","e","a","d","e","r","s">>,
      <<"P","o","l","i","t","i","c","a","l"," ","p","a","r","t","i","e","s">>>>,
    <<<<"P","o","l","i","t","i","c","a","l"," ","p","r","e","s","s","u","r","e"," ","g","r","o","u","p","s"," ","a","n","d"," ","l","e","a","d","e","r","s">>,
      <<"P","o","l","i","t","i","c","a","l"," ","p","a","r","t","i","e","s">>>>,
    <<<<"F","l","a","g"," ","d","e","s","c","r","i","p","t","i","o","n">>,
      <<"F","l","a","g">>>>,
    <<<<"W","a","t","e","r","w","a","y","s">>,
      <<"W","a","t","e","r","w","a","y","s">>>>,
    <<<<"I","n","l","a","n","d"," ","w","a","t","e","r","w","a","y","s">>,
      <<"W","a","t","e","r","w","a","y","s">>>>,
    <<<<"A","r","e","a"," ","R","a","n","k","i","n","g","s">>,
      <<"A","r","e","a"," ","-"," ","r","a","n","k","i","n","g","s">>>>,
    <<<<"R","e","s","e","r","v","e","s"," ","o","f"," ","f","o","r","e","i","g","n"," ","e","x","c","h","a","n","g","e"," ","&"," ","g","o","l","d">>,
      <<"R","e","s","e","r","v","e","s"," ","o","f"," ","f","o","r","e","i","g","n"," ","e","x","c","h","a","n","g","e"," ","a","n","d"," ","g","o","l","d">>>>,
    <<<<"T","r","a","n","s","p","o","r","t","a","t","i","o","n"," ","n","o","t","e">>,
      <<"T","r","a","n","s","p","o","r","t","a","t","i","o","n"," ","-"," ","n","o","t","e">>>>,
    <<<<"E","d","u","c","a","t","i","o","n"," ","e","x","p","e","n","d","i","t","u","r","e","s">>,
      <<"E","d","u","c","a","t","i","o","n"," ","e","x","p","e","n","d","i","t","u","r","e">>>>,
    <<<<"H","e","a","l","t","h"," ","e","x","p","e","n","d","i","t","u","r","e","s">>,
      <<"H","e","a","l","t","h"," ","e","x","p","e","n","d","i","t","u","r","e">>>>,
    <<<<"I","n","t","e","r","n","a","t","i","o","n","a","l"," ","l","a","w"," ","o","r","g","a","n","i","z","a","t","i","o","n"," ","p","a","r","t","i","c","i","p","a","t","i","o","n">>,
      <<"I","n","t","e","r","n","a","t","i","o","n","a","l"," ","l","a","w"," ","o","r","g","a","n","i","z","a","t","i","o","n"," ","p","a","r","t","i","c","i","p","a","t","i","o","n">>>>,
    <<<<"C","u","r","r","e","n","c","y">>,
      <<"E","x","c","h","a","n","g","e"," ","r","a","t","e","s">>>>,
    <<<<"C","u","r","r","e","n","c","y"," ","c","o","d","e">>,
      <<"E","x","c","h","a","n","g","e"," ","r","a","t","e","s">>>>,
    <<<<"C","u","r","r","e","n","c","y"," ","(","c","o","d","e",")">>,
      <<"E","x","c","h","a","n","g","e"," ","r","a","t","e","s">>>>,
    <<<<"A","p","p","e","n","d","i","x"," ","A">>,
      <<"A","p","p","e","n","d","i","x"," ","A">>>>,
    <<<<"A","p","p","e","n","d","i","x"," ","B">>,
      <<"A","p","p","e","n","d","i","x"," ","B">>>>,
    <<<<"A","p","p","e","n","d","i","x"," ","C">>,
      <<"A","p","p","e","n","d","i","x"," ","C">>>>,
    <<<<"A","p","p","e","n","d","i","x"," ","D">>,
      <<"A","p","p","e","n","d","i","x"," ","D">>>>,
    <<<<"A","p","p","e","n","d","i","x"," ","E">>,
      <<"A","p","p","e","n","d","i","x"," ","E">>>>,
    <<<<"A","p","p","e","n","d","i","x"," ","F">>,
      <<"A","p","p","e","n","d","i","x"," ","F">>>>,
    <<<<"A","p","p","e","n","d","i","x"," ","G">>,
      <<"A","p","p","e","n","d","i","x"," ","G">>>>,
    <<<<"A","p","p","e","n","d","i","x"," ","H">>,
      <<"A","p","p","e","n","d","i","x"," ","H">>>>,
    <<<<"C","a","r","b","o","n"," ","d","i","o","x","i","d","e"," ","e","m","i","s","s","i","o","n","s"," ","f","r","o","m"," ","c","o","n","s","u","m","p","t","i","o","n"," ","o","f"," ","e","n","e","r","g","y">>,
      <<"C","a","r","b","o","n"," ","d","i","o","x","i","d","e"," ","e","m","i","s","s","i","o","n","s">>>>,
    <<<<"T","e","r","r","o","r","i","s","t"," ","g","r","o","u","p","s"," ","-"," ","f","o","r","e","i","g","n"," ","b","a","s","e","d">>,
      <<"T","e","r","r","o","r","i","s","t"," ","g","r","o","u","p","(","s",")">>>>,
    <<<<"T","e","r","r","o","r","i","s","t"," ","g","r","o","u","p","s"," ","-"," ","h","o","m","e"," ","b","a","s","e","d">>,
      <<"T","e","r","r","o","r","i","s","t"," ","g","r","o","u","p","(","s",")">>>>,
    <<<<"E","x","t","e","r","n","a","l"," ","d","e","b","t">>,
      <<"D","e","b","t"," ","-"," ","e","x","t","e","r","n","a","l">>>>,
    <<<<"G","e","o","g","r","a","p","h","i","c"," ","n","o","t","e">>,
      <<"G","e","o","g","r","a","p","h","y"," ","-"," ","n","o","t","e">>>>,
    <<<<"D","e","f","e","n","s","e"," ","n","o","t","e">>,
      <<"M","i","l","i","t","a","r","y"," ","-"," ","n","o","t","e">>>>,
    <<<<"G","o","v","e","r","n","m","e","n","t"," ","n","o","t","e">>,
      <<"G","o","v","e","r","n","m","e","n","t"," ","-"," ","n","o","t","e">>>>,
    <<<<"C","o","m","m","u","n","i","c","a","t","i","o","n","s"," ","n","o","t","e">>,
      <<"C","o","m","m","u","n","i","c","a","t","i","o","n","s"," ","-"," ","n","o","t","e">>>>,
    <<<<"N","a","m","e"," ","o","f"," ","c","o","u","n","t","r","y">>,
      <<"C","o","u","n","t","r","y"," ","n","a","m","e">>>>,
    <<<<"N","a","m","e","s">>,
      <<"C","o","u","n","t","r","y"," ","n","a","m","e">>>>,
    <<<<"L","o","n","g","-","f","o","r","m"," ","n","a","m","e">>,
      <<"C","o","u","n","t","r","y"," ","n","a","m","e">>>>,
    <<<<"N","a","t","i","o","n","a","l"," ","c","a","p","i","t","a","l">>,
      <<"C","a","p","i","t","a","l">>>>,
    <<<<"N","a","t","i","o","n","a","l"," ","h","o","l","i","d","a","y","s">>,
      <<"N","a","t","i","o","n","a","l"," ","h","o","l","i","d","a","y">>>>,
    <<<<"E","x","c","h","a","n","g","e"," ","r","a","t","e">>,
      <<"E","x","c","h","a","n","g","e"," ","r","a","t","e","s">>>>,
    <<<<"I","n","d","u","s","t","r","i","a","l"," ","p","r","o","d","u","c","t","i","o","n">>,
      <<"I","n","d","u","s","t","r","i","a","l"," ","p","r","o","d","u","c","t","i","o","n"," ","g","r","o","w","t","h"," ","r","a","t","e">>>>,
    <<<<"I","n","d","u","s","t","r","y">>,
      <<"I","n","d","u","s","t","r","i","e","s">>>>,
    <<<<"L","a","n","d"," ","b","o","u","n","d","a","r","y">>,
      <<"L","a","n","d"," ","b","o","u","n","d","a","r","i","e","s">>>>,
    <<<<"M","a","n","p","o","w","e","r"," ","a","v","a","i","l","a","b","i","l","i","t","y">>,
      <<"M","a","n","p","o","w","e","r"," ","a","v","a","i","l","a","b","i","l","i","t","y">>>>,
    <<<<"G","N","P">>,
      <<"G","N","P">>>>,
    <<<<"G","r","o","w","t","h"," ","r","a","t","e"," ","(","p","o","p","u","l","a","t","i","o","n",")">>,
      <<"P","o","p","u","l","a","t","i","o","n"," ","g","r","o","w","t","h"," ","r","a","t","e">>>>,
    <<<<"C","u","r","r","e","n","t"," ","H","e","a","l","t","h"," ","E","x","p","e","n","d","i","t","u","r","e">>,
      <<"C","u","r","r","e","n","t"," ","h","e","a","l","t","h"," ","e","x","p","e","n","d","i","t","u","r","e">>>>,
    <<<<"G","D","P"," ","(","p","u","r","c","h","a","s","i","n","g"," ","p","o","w","e","r"," ","p","a","r","i","t","y",")"," ","-"," ","r","e","a","l">>,
      <<"R","e","a","l"," ","G","D","P"," ","(","p","u","r","c","h","a","s","i","n","g"," ","p","o","w","e","r"," ","p","a","r","i","t","y",")">>>>,
    <<<<"I","n","f","l","a","t","i","o","n"," ","r","a","t","e"," ","-"," ","c","o","n","s","u","m","e","r"," ","p","r","i","c","e"," ","i","n","d","e","x">>,
      <<"I","n","f","l","a","t","i","o","n"," ","r","a","t","e"," ","(","c","o","n","s","u","m","e","r"," ","p","r","i","c","e","s",")">>>>,
    <<<<"M","a","j","o","r"," ","c","i","t","i","e","s"," ","-"," ","p","o","p","u","l","a","t","i","o","n">>,
      <<"M","a","j","o","r"," ","u","r","b","a","n"," ","a","r","e","a","s"," ","-"," ","p","o","p","u","l","a","t","i","o","n">>>>,
    <<<<"H","e","a","d"," ","o","f"," ","G","o","v","e","r","n","m","e","n","t">>,
      <<"E","x","e","c","u","t","i","v","e"," ","b","r","a","n","c","h">>>>,
    <<<<"C","h","i","e","f"," ","o","f"," ","S","t","a","t","e">>,
      <<"E","x","e","c","u","t","i","v","e"," ","b","r","a","n","c","h">>>>,
    <<<<"E","l","e","c","t","i","o","n","s">>,
      <<"E","x","e","c","u","t","i","v","e"," ","b","r","a","n","c","h">>>>,
    <<<<"M","e","m","b","e","r"," ","o","f">>,
      <<"I","n","t","e","r","n","a","t","i","o","n","a","l"," ","o","r","g","a","n","i","z","a","t","i","o","n"," ","p","a","r","t","i","c","i","p","a","t","i","o","n">>>>,
    <<<<"O","t","h","e","r"," ","p","o","l","i","t","i","c","a","l"," ","o","r"," ","p","r","e","s","s","u","r","e"," ","g","r","o","u","p","s">>,
      <<"P","o","l","i","t","i","c","a","l"," ","p","a","r","t","i","e","s">>>>,
    <<<<"O","t","h","e","r"," ","p","o","l","i","t","i","c","a","l"," ","p","r","e","s","s","u","r","e"," ","g","r","o","u","p","s">>,
      <<"P","o","l","i","t","i","c","a","l"," ","p","a","r","t","i","e","s">>>>,
    <<<<"O","t","h","e","r"," ","p","o","l","i","t","i","c","a","l"," ","g","r","o","u","p","s">>,
      <<"P","o","l","i","t","i","c","a","l"," ","p","a","r","t","i","e","s">>>>,
    <<<<"C","u","r","r","e","n","t"," ","i","s","s","u","e","s">>,
      <<"E","n","v","i","r","o","n","m","e","n","t"," ","-"," ","c","u","r","r","e","n","t"," ","i","s","s","u","e","s">>>>,
    <<<<"D","e","p","e","n","d","e","n","t"," ","a","r","e","a">>,
      <<"D","e","p","e","n","d","e","n","c","y"," ","s","t","a","t","u","s">>>>,
    <<<<"E","c","o","n","o","m","i","c"," ","a","i","d">>,
      <<"E","c","o","n","o","m","i","c"," ","a","i","d">>>>,
    <<<<"E","c","o","n","o","m","i","c"," ","a","i","d"," ","-"," ","d","o","n","o","r">>,
      <<"E","c","o","n","o","m","i","c"," ","a","i","d">>>>,
    <<<<"E","c","o","n","o","m","i","c"," ","a","i","d"," ","-"," ","r","e","c","i","p","i","e","n","t">>,
      <<"E","c","o","n","o","m","i","c"," ","a","i","d">>>>,
    <<<<"C","o","m","m","u","n","i","s","t","s">>,
      <<"P","o","l","i","t","i","c","a","l"," ","p","a","r","t","i","e","s">>>>,
    <<<<"L","e","g","i","s","l","a","t","u","r","e">>,
      <<"L","e","g","i","s","l","a","t","i","v","e"," ","b","r","a","n","c","h">>>>,
    <<<<"T","e","l","e","p","h","o","n","e">>,
      <<"T","e","l","e","c","o","m","m","u","n","i","c","a","t","i","o","n"," ","s","y","s","t","e","m","s">>>>,
    <<<<"I","n","t","e","r","n","e","t">>,
      <<"I","n","t","e","r","n","e","t"," ","u","s","e","r","s">>>>,
    <<<<"I","n","t","e","r","n","e","t"," ","S","e","r","v","i","c","e"," ","P","r","o","v","i","d","e","r","s"," ","(","I","S","P","s",")">>,
      <<"I","n","t","e","r","n","e","t"," ","u","s","e","r","s">>>>,
    <<<<"I","n","t","e","r","n","e","t"," ","h","o","s","t","s">>,
      <<"I","n","t","e","r","n","e","t"," ","u","s","e","r","s">>>>,
    <<<<"F","A","X">>,
      <<"D","i","p","l","o","m","a","t","i","c"," ","r","e","p","r","e","s","e","n","t","a","t","i","o","n"," ","i","n"," ","t","h","e"," ","U","S">>>>,
    <<<<"G","r","o","s","s"," ","n","a","t","i","o","n","a","l"," ","s","a","v","i","n","g">>,
      <<"G","r","o","s","s"," ","n","a","t","i","o","n","a","l"," ","s","a","v","i","n","g">>>>,
    <<<<"E","a","s","e"," ","o","f"," ","D","o","i","n","g"," ","B","u","s","i","n","e","s","s"," ","I","n","d","e","x"," ","s","c","o","r","e","s">>,
      <<"E","a","s","e"," ","o","f"," ","D","o","i","n","g"," ","B","u","s","i","n","e","s","s"," ","I","n","d","e","x"," ","s","c","o","r","e","s">>>>,
    <<<<"M","a","r","i","t","i","m","e"," ","t","h","r","e","a","t","s">>,
      <<"M","a","r","i","t","i","m","e"," ","t","h","r","e","a","t","s">>>>,
    <<<<"C","h","i","l","d"," ","l","a","b","o","r"," ","-"," ","c","h","i","l","d","r","e","n"," ","a","g","e","s"," ","5","-","1","4">>,
      <<"C","h","i","l","d"," ","l","a","b","o","r"," ","-"," ","c","h","i","l","d","r","e","n"," ","a","g","e","s"," ","5","-","1","4">>>>,
    <<<<"L","a","b","o","r"," ","f","o","r","c","e"," ","-"," ","b","y"," ","o","c","c","u","p","a","t","i","o","n">>,
      <<"L","a","b","o","r"," ","f","o","r","c","e"," ","-"," ","b","y"," ","o","c","c","u","p","a","t","i","o","n">>>>,
    <<<<"D","e","m","o","g","r","a","p","h","i","c"," ","p","r","o","f","i","l","e">>,
      <<"D","e","m","o","g","r","a","p","h","i","c"," ","p","r","o","f","i","l","e">>>>,
    <<<<"A","i","r","p","o","r","t","s"," ","-"," ","w","i","t","h"," ","p","a","v","e","d"," ","r","u","n","w","a","y","s">>,
      <<"A","i","r","p","o","r","t","s"," ","-"," ","w","i","t","h"," ","p","a","v","e","d"," ","r","u","n","w","a","y","s">>>>,
    <<<<"A","i","r","p","o","r","t","s"," ","-"," ","w","i","t","h"," ","u","n","p","a","v","e","d"," ","r","u","n","w","a","y","s">>,
      <<"A","i","r","p","o","r","t","s"," ","-"," ","w","i","t","h"," ","u","n","p","a","v","e","d"," ","r","u","n","w","a","y","s">>>>,
    <<<<"F","i","s","c","a","l"," ","y","e","a","r">>,
      <<"F","i","s","c","a","l"," ","y","e","a","r">>>>,
    <<<<"I","c","e","b","r","e","a","k","e","r","s">>,
      <<"I","c","e","b","r","e","a","k","e","r","s">>>>,
    <<<<"E","c","o","n","o","m","y"," ","o","f"," ","t","h","e"," ","a","r","e","a"," ","a","d","m","i","n","i","s","t","e","r","e","d"," ","b","y"," ","T","u","r","k","i","s","h"," ","C","y","p","r","i","o","t","s">>,
      <<"E","c","o","n","o","m","y"," ","o","f"," ","t","h","e"," ","a","r","e","a"," ","a","d","m","i","n","i","s","t","e","r","e","d"," ","b","y"," ","T","u","r","k","i","s","h"," ","C","y","p","r","i","o","t","s">>>>,
    <<<<"H","I","V","/","A","I","D","S"," ","-"," ","a","d","u","l","t"," ","p","r","e","v","a","l","e","n","c","e"," ","r","a","t","e">>,
      <<"H","I","V","/","A","I","D","S"," ","-"," ","a","d","u","l","t"," ","p","r","e","v","a","l","e","n","c","e"," ","r","a","t","e">>>>,
    <<<<"H","I","V","/","A","I","D","S"," ","-"," ","d","e","a","t","h","s">>,
      <<"H","I","V","/","A","I","D","S"," ","-"," ","d","e","a","t","h","s">>>>,
    <<<<"H","I","V","/","A","I","D","S"," ","-"," ","p","e","o","p","l","e"," ","l","i","v","i","n","g"," ","w","i","t","h"," ","H","I","V","/","A","I","D","S">>,
      <<"H","I","V","/","A","I","D","S"," ","-"," ","p","e","o","p","l","e"," ","l","i","v","i","n","g"," ","w","i","t","h"," ","H","I","V","/","A","I","D","S">>>>,
    <<<<"S","t","o","c","k"," ","o","f"," ","b","r","o","a","d"," ","m","o","n","e","y">>,
      <<"S","t","o","c","k"," ","o","f"," ","b","r","o","a","d"," ","m","o","n","e","y">>>>,
    <<<<"S","t","o","c","k"," ","o","f"," ","n","a","r","r","o","w"," ","m","o","n","e","y">>,
      <<"S","t","o","c","k"," ","o","f"," ","n","a","r","r","o","w"," ","m","o","n","e","y">>>>,
    <<<<"S","t","o","c","k"," ","o","f"," ","m","o","n","e","y">>,
      <<"S","t","o","c","k"," ","o","f"," ","n","a","r","r","o","w"," ","m","o","n","e","y">>>>,
    <<<<"S","t","o","c","k"," ","o","f"," ","q","u","a","s","i"," ","m","o","n","e","y">>,
      <<"S","t","o","c","k"," ","o","f"," ","n","a","r","r","o","w"," ","m","o","n","e","y">>>>,
    <<<<"S","t","o","c","k"," ","o","f"," ","d","o","m","e","s","t","i","c"," ","c","r","e","d","i","t">>,
      <<"S","t","o","c","k"," ","o","f"," ","d","o","m","e","s","t","i","c"," ","c","r","e","d","i","t">>>>,
    <<<<"S","t","o","c","k"," ","o","f"," ","d","i","r","e","c","t"," ","f","o","r","e","i","g","n"," ","i","n","v","e","s","t","m","e","n","t"," ","-"," ","a","t"," ","h","o","m","e">>,
      <<"S","t","o","c","k"," ","o","f"," ","d","i","r","e","c","t"," ","f","o","r","e","i","g","n"," ","i","n","v","e","s","t","m","e","n","t"," ","-"," ","a","t"," ","h","o","m","e">>>>,
    <<<<"S","t","o","c","k"," ","o","f"," ","d","i","r","e","c","t"," ","f","o","r","e","i","g","n"," ","i","n","v","e","s","t","m","e","n","t"," ","-"," ","a","b","r","o","a","d">>,
      <<"S","t","o","c","k"," ","o","f"," ","d","i","r","e","c","t"," ","f","o","r","e","i","g","n"," ","i","n","v","e","s","t","m","e","n","t"," ","-"," ","a","b","r","o","a","d">>>>,
    <<<<"M","a","r","k","e","t"," ","v","a","l","u","e"," ","o","f"," ","p","u","b","l","i","c","l","y"," ","t","r","a","d","e","d"," ","s","h","a","r","e","s">>,
      <<"M","a","r","k","e","t"," ","v","a","l","u","e"," ","o","f"," ","p","u","b","l","i","c","l","y"," ","t","r","a","d","e","d"," ","s","h","a","r","e","s">>>>,
    <<<<"C","o","m","m","e","r","c","i","a","l"," ","b","a","n","k"," ","p","r","i","m","e"," ","l","e","n","d","i","n","g"," ","r","a","t","e">>,
      <<"C","o","m","m","e","r","c","i","a","l"," ","b","a","n","k"," ","p","r","i","m","e"," ","l","e","n","d","i","n","g"," ","r","a","t","e">>>>,
    <<<<"C","e","n","t","r","a","l"," ","b","a","n","k"," ","d","i","s","c","o","u","n","t"," ","r","a","t","e">>,
      <<"C","e","n","t","r","a","l"," ","b","a","n","k"," ","d","i","s","c","o","u","n","t"," ","r","a","t","e">>>>,
    <<<<"I","n","v","e","s","t","m","e","n","t"," ","(","g","r","o","s","s"," ","f","i","x","e","d",")">>,
      <<"I","n","v","e","s","t","m","e","n","t"," ","(","g","r","o","s","s"," ","f","i","x","e","d",")">>>>,
    <<<<"B","u","d","g","e","t"," ","s","u","r","p","l","u","s"," ","(","+",")"," ","o","r"," ","d","e","f","i","c","i","t"," ","(","-",")">>,
      <<"B","u","d","g","e","t"," ","s","u","r","p","l","u","s"," ","(","+",")"," ","o","r"," ","d","e","f","i","c","i","t"," ","(","-",")">>>>,
    <<<<"T","a","x","e","s"," ","a","n","d"," ","o","t","h","e","r"," ","r","e","v","e","n","u","e","s">>,
      <<"T","a","x","e","s"," ","a","n","d"," ","o","t","h","e","r"," ","r","e","v","e","n","u","e","s">>>>,
    <<<<"P","o","p","u","l","a","t","i","o","n"," ","-"," ","d","i","s","t","r","i","b","u","t","i","o","n">>,
      <<"P","o","p","u","l","a","t","i","o","n"," ","d","i","s","t","r","i","b","u","t","i","o","n">>>>,
    <<<<"P","o","p","u","l","a","t","i","o","n"," ","b","e","l","o","w"," ","p","o","v","e","r","t","y"," ","l","i","n","e">>,
      <<"P","o","p","u","l","a","t","i","o","n"," ","b","e","l","o","w"," ","p","o","v","e","r","t","y"," ","l","i","n","e">>>>,
    <<<<"F","r","e","s","h","w","a","t","e","r"," ","w","i","t","h","d","r","a","w","a","l"," ","(","d","o","m","e","s","t","i","c","/","i","n","d","u","s","t","r","i","a","l","/","a","g","r","i","c","u","l","t","u","r","a","l",")">>,
      <<"T","o","t","a","l"," ","w","a","t","e","r"," ","w","i","t","h","d","r","a","w","a","l">>>>,
    <<<<"M","a","j","o","r"," ","i","n","f","e","c","t","i","o","u","s"," ","d","i","s","e","a","s","e","s">>,
      <<"M","a","j","o","r"," ","i","n","f","e","c","t","i","o","u","s"," ","d","i","s","e","a","s","e","s">>>>,
    <<<<"C","r","e","d","i","t"," ","r","a","t","i","n","g","s">>,
      <<"C","r","e","d","i","t"," ","r","a","t","i","n","g","s">>>>,
    <<<<"F","o","o","d"," ","i","n","s","e","c","u","r","i","t","y">>,
      <<"F","o","o","d"," ","i","n","s","e","c","u","r","i","t","y">>>>
  }

CONSOLIDATION_MAP ==
  {
    <<<<"O","i","l"," ","-"," ","p","r","o","d","u","c","t","i","o","n">>,
      <<"P","e","t","r","o","l","e","u","m">>>>,
    <<<<"O","i","l"," ","-"," ","c","o","n","s","u","m","p","t","i","o","n">>,
      <<"P","e","t","r","o","l","e","u","m">>>>,
    <<<<"O","i","l"," ","-"," ","e","x","p","o","r","t","s">>,
      <<"P","e","t","r","o","l","e","u","m">>>>,
    <<<<"O","i","l"," ","-"," ","i","m","p","o","r","t","s">>,
      <<"P","e","t","r","o","l","e","u","m">>>>,
    <<<<"O","i","l"," ","-"," ","p","r","o","v","e","d"," ","r","e","s","e","r","v","e","s">>,
      <<"P","e","t","r","o","l","e","u","m">>>>,
    <<<<"C","r","u","d","e"," ","o","i","l"," ","-"," ","p","r","o","d","u","c","t","i","o","n">>,
      <<"P","e","t","r","o","l","e","u","m">>>>,
    <<<<"C","r","u","d","e"," ","o","i","l"," ","-"," ","e","x","p","o","r","t","s">>,
      <<"P","e","t","r","o","l","e","u","m">>>>,
    <<<<"C","r","u","d","e"," ","o","i","l"," ","-"," ","i","m","p","o","r","t","s">>,
      <<"P","e","t","r","o","l","e","u","m">>>>,
    <<<<"C","r","u","d","e"," ","o","i","l"," ","-"," ","p","r","o","v","e","d"," ","r","e","s","e","r","v","e","s">>,
      <<"P","e","t","r","o","l","e","u","m">>>>,
    <<<<"R","e","f","i","n","e","d"," ","p","e","t","r","o","l","e","u","m"," ","p","r","o","d","u","c","t","s"," ","-"," ","p","r","o","d","u","c","t","i","o","n">>,
      <<"P","e","t","r","o","l","e","u","m">>>>,
    <<<<"R","e","f","i","n","e","d"," ","p","e","t","r","o","l","e","u","m"," ","p","r","o","d","u","c","t","s"," ","-"," ","c","o","n","s","u","m","p","t","i","o","n">>,
      <<"P","e","t","r","o","l","e","u","m">>>>,
    <<<<"R","e","f","i","n","e","d"," ","p","e","t","r","o","l","e","u","m"," ","p","r","o","d","u","c","t","s"," ","-"," ","e","x","p","o","r","t","s">>,
      <<"P","e","t","r","o","l","e","u","m">>>>,
    <<<<"R","e","f","i","n","e","d"," ","p","e","t","r","o","l","e","u","m"," ","p","r","o","d","u","c","t","s"," ","-"," ","i","m","p","o","r","t","s">>,
      <<"P","e","t","r","o","l","e","u","m">>>>,
    <<<<"N","a","t","u","r","a","l"," ","g","a","s"," ","-"," ","p","r","o","d","u","c","t","i","o","n">>,
      <<"N","a","t","u","r","a","l"," ","g","a","s">>>>,
    <<<<"N","a","t","u","r","a","l"," ","g","a","s"," ","-"," ","c","o","n","s","u","m","p","t","i","o","n">>,
      <<"N","a","t","u","r","a","l"," ","g","a","s">>>>,
    <<<<"N","a","t","u","r","a","l"," ","g","a","s"," ","-"," ","e","x","p","o","r","t","s">>,
      <<"N","a","t","u","r","a","l"," ","g","a","s">>>>,
    <<<<"N","a","t","u","r","a","l"," ","g","a","s"," ","-"," ","i","m","p","o","r","t","s">>,
      <<"N","a","t","u","r","a","l"," ","g","a","s">>>>,
    <<<<"N","a","t","u","r","a","l"," ","g","a","s"," ","-"," ","p","r","o","v","e","d"," ","r","e","s","e","r","v","e","s">>,
      <<"N","a","t","u","r","a","l"," ","g","a","s">>>>,
    <<<<"E","l","e","c","t","r","i","c","i","t","y"," ","-"," ","p","r","o","d","u","c","t","i","o","n">>,
      <<"E","l","e","c","t","r","i","c","i","t","y">>>>,
    <<<<"E","l","e","c","t","r","i","c","i","t","y"," ","-"," ","c","o","n","s","u","m","p","t","i","o","n">>,
      <<"E","l","e","c","t","r","i","c","i","t","y">>>>,
    <<<<"E","l","e","c","t","r","i","c","i","t","y"," ","-"," ","e","x","p","o","r","t","s">>,
      <<"E","l","e","c","t","r","i","c","i","t","y">>>>,
    <<<<"E","l","e","c","t","r","i","c","i","t","y"," ","-"," ","i","m","p","o","r","t","s">>,
      <<"E","l","e","c","t","r","i","c","i","t","y">>>>,
    <<<<"E","l","e","c","t","r","i","c","i","t","y"," ","-"," ","i","n","s","t","a","l","l","e","d"," ","g","e","n","e","r","a","t","i","n","g"," ","c","a","p","a","c","i","t","y">>,
      <<"E","l","e","c","t","r","i","c","i","t","y">>>>,
    <<<<"E","l","e","c","t","r","i","c","i","t","y"," ","-"," ","f","r","o","m"," ","f","o","s","s","i","l"," ","f","u","e","l","s">>,
      <<"E","l","e","c","t","r","i","c","i","t","y"," ","g","e","n","e","r","a","t","i","o","n"," ","s","o","u","r","c","e","s">>>>,
    <<<<"E","l","e","c","t","r","i","c","i","t","y"," ","-"," ","f","r","o","m"," ","h","y","d","r","o","e","l","e","c","t","r","i","c"," ","p","l","a","n","t","s">>,
      <<"E","l","e","c","t","r","i","c","i","t","y"," ","g","e","n","e","r","a","t","i","o","n"," ","s","o","u","r","c","e","s">>>>,
    <<<<"E","l","e","c","t","r","i","c","i","t","y"," ","-"," ","f","r","o","m"," ","n","u","c","l","e","a","r"," ","f","u","e","l","s">>,
      <<"E","l","e","c","t","r","i","c","i","t","y"," ","g","e","n","e","r","a","t","i","o","n"," ","s","o","u","r","c","e","s">>>>,
    <<<<"E","l","e","c","t","r","i","c","i","t","y"," ","-"," ","f","r","o","m"," ","o","t","h","e","r"," ","r","e","n","e","w","a","b","l","e"," ","s","o","u","r","c","e","s">>,
      <<"E","l","e","c","t","r","i","c","i","t","y"," ","g","e","n","e","r","a","t","i","o","n"," ","s","o","u","r","c","e","s">>>>,
    <<<<"E","l","e","c","t","r","i","c","i","t","y"," ","-"," ","p","r","o","d","u","c","t","i","o","n"," ","b","y"," ","s","o","u","r","c","e">>,
      <<"E","l","e","c","t","r","i","c","i","t","y"," ","g","e","n","e","r","a","t","i","o","n"," ","s","o","u","r","c","e","s">>>>,
    <<<<"E","l","e","c","t","r","i","c","i","t","y"," ","p","r","o","d","u","c","t","i","o","n"," ","b","y"," ","s","o","u","r","c","e">>,
      <<"E","l","e","c","t","r","i","c","i","t","y"," ","g","e","n","e","r","a","t","i","o","n"," ","s","o","u","r","c","e","s">>>>,
    <<<<"M","i","l","i","t","a","r","y"," ","m","a","n","p","o","w","e","r"," ","-"," ","a","v","a","i","l","a","b","i","l","i","t","y">>,
      <<"M","i","l","i","t","a","r","y"," ","a","n","d"," ","s","e","c","u","r","i","t","y"," ","s","e","r","v","i","c","e"," ","p","e","r","s","o","n","n","e","l"," ","s","t","r","e","n","g","t","h","s">>>>,
    <<<<"M","i","l","i","t","a","r","y"," ","m","a","n","p","o","w","e","r"," ","-"," ","f","i","t"," ","f","o","r"," ","m","i","l","i","t","a","r","y"," ","s","e","r","v","i","c","e">>,
      <<"M","i","l","i","t","a","r","y"," ","a","n","d"," ","s","e","c","u","r","i","t","y"," ","s","e","r","v","i","c","e"," ","p","e","r","s","o","n","n","e","l"," ","s","t","r","e","n","g","t","h","s">>>>,
    <<<<"M","i","l","i","t","a","r","y"," ","m","a","n","p","o","w","e","r"," ","-"," ","r","e","a","c","h","i","n","g"," ","m","i","l","i","t","a","r","y"," ","a","g","e"," ","a","n","n","u","a","l","l","y">>,
      <<"M","i","l","i","t","a","r","y"," ","s","e","r","v","i","c","e"," ","a","g","e"," ","a","n","d"," ","o","b","l","i","g","a","t","i","o","n">>>>,
    <<<<"M","i","l","i","t","a","r","y"," ","m","a","n","p","o","w","e","r"," ","-"," ","m","i","l","i","t","a","r","y"," ","a","g","e">>,
      <<"M","i","l","i","t","a","r","y"," ","s","e","r","v","i","c","e"," ","a","g","e"," ","a","n","d"," ","o","b","l","i","g","a","t","i","o","n">>>>,
    <<<<"M","i","l","i","t","a","r","y"," ","m","a","n","p","o","w","e","r"," ","-"," ","m","i","l","i","t","a","r","y"," ","a","g","e"," ","a","n","d"," ","o","b","l","i","g","a","t","i","o","n">>,
      <<"M","i","l","i","t","a","r","y"," ","s","e","r","v","i","c","e"," ","a","g","e"," ","a","n","d"," ","o","b","l","i","g","a","t","i","o","n">>>>,
    <<<<"M","a","n","p","o","w","e","r"," ","a","v","a","i","l","a","b","l","e"," ","f","o","r"," ","m","i","l","i","t","a","r","y"," ","s","e","r","v","i","c","e">>,
      <<"M","i","l","i","t","a","r","y"," ","a","n","d"," ","s","e","c","u","r","i","t","y"," ","s","e","r","v","i","c","e"," ","p","e","r","s","o","n","n","e","l"," ","s","t","r","e","n","g","t","h","s">>>>,
    <<<<"M","a","n","p","o","w","e","r"," ","f","i","t"," ","f","o","r"," ","m","i","l","i","t","a","r","y"," ","s","e","r","v","i","c","e">>,
      <<"M","i","l","i","t","a","r","y"," ","a","n","d"," ","s","e","c","u","r","i","t","y"," ","s","e","r","v","i","c","e"," ","p","e","r","s","o","n","n","e","l"," ","s","t","r","e","n","g","t","h","s">>>>,
    <<<<"M","a","n","p","o","w","e","r"," ","r","e","a","c","h","i","n","g"," ","m","i","l","i","t","a","r","y"," ","s","e","r","v","i","c","e"," ","a","g","e"," ","a","n","n","u","a","l","l","y">>,
      <<"M","i","l","i","t","a","r","y"," ","s","e","r","v","i","c","e"," ","a","g","e"," ","a","n","d"," ","o","b","l","i","g","a","t","i","o","n">>>>,
    <<<<"M","a","n","p","o","w","e","r"," ","r","e","a","c","h","i","n","g"," ","m","i","l","i","t","a","r","i","l","y"," ","s","i","g","n","i","f","i","c","a","n","t"," ","a","g","e"," ","a","n","n","u","a","l","l","y">>,
      <<"M","i","l","i","t","a","r","y"," ","s","e","r","v","i","c","e"," ","a","g","e"," ","a","n","d"," ","o","b","l","i","g","a","t","i","o","n">>>>,
    <<<<"M","i","l","i","t","a","r","y"," ","e","x","p","e","n","d","i","t","u","r","e","s"," ","-"," ","d","o","l","l","a","r"," ","f","i","g","u","r","e">>,
      <<"M","i","l","i","t","a","r","y"," ","e","x","p","e","n","d","i","t","u","r","e","s">>>>,
    <<<<"M","i","l","i","t","a","r","y"," ","e","x","p","e","n","d","i","t","u","r","e","s"," ","-"," ","p","e","r","c","e","n","t"," ","o","f"," ","G","D","P">>,
      <<"M","i","l","i","t","a","r","y"," ","e","x","p","e","n","d","i","t","u","r","e","s">>>>,
    <<<<"M","i","l","i","t","a","r","y"," ","m","a","n","p","o","w","e","r">>,
      <<"M","i","l","i","t","a","r","y"," ","a","n","d"," ","s","e","c","u","r","i","t","y"," ","s","e","r","v","i","c","e"," ","p","e","r","s","o","n","n","e","l"," ","s","t","r","e","n","g","t","h","s">>>>,
    <<<<"C","o","n","t","i","g","u","o","u","s"," ","z","o","n","e">>,
      <<"M","a","r","i","t","i","m","e"," ","c","l","a","i","m","s">>>>,
    <<<<"C","o","n","t","i","n","e","n","t","a","l"," ","s","h","e","l","f">>,
      <<"M","a","r","i","t","i","m","e"," ","c","l","a","i","m","s">>>>,
    <<<<"E","x","c","l","u","s","i","v","e"," ","e","c","o","n","o","m","i","c"," ","z","o","n","e">>,
      <<"M","a","r","i","t","i","m","e"," ","c","l","a","i","m","s">>>>,
    <<<<"E","x","c","l","u","s","i","v","e"," ","f","i","s","h","i","n","g"," ","z","o","n","e">>,
      <<"M","a","r","i","t","i","m","e"," ","c","l","a","i","m","s">>>>,
    <<<<"E","x","t","e","n","d","e","d"," ","e","c","o","n","o","m","i","c"," ","z","o","n","e">>,
      <<"M","a","r","i","t","i","m","e"," ","c","l","a","i","m","s">>>>,
    <<<<"G","u","l","f"," ","o","f"," ","S","i","d","r","a"," ","c","l","o","s","i","n","g"," ","l","i","n","e">>,
      <<"M","a","r","i","t","i","m","e"," ","c","l","a","i","m","s">>>>,
    <<<<"M","i","l","i","t","a","r","y"," ","b","o","u","n","d","a","r","y"," ","l","i","n","e">>,
      <<"M","a","r","i","t","i","m","e"," ","c","l","a","i","m","s">>>>,
    <<<<"E","l","e","c","t","r","i","c","i","t","y"," ","-"," ","c","a","p","a","c","i","t","y">>,
      <<"E","l","e","c","t","r","i","c","i","t","y">>>>,
    <<<<"E","l","e","c","t","r","i","c","i","t","y"," ","-"," ","c","o","n","s","u","m","p","t","i","o","n"," ","p","e","r"," ","c","a","p","i","t","a">>,
      <<"E","n","e","r","g","y"," ","c","o","n","s","u","m","p","t","i","o","n"," ","p","e","r"," ","c","a","p","i","t","a">>>>
  }

GOV_BODY_KEYWORDS ==
  <<
    <<"A","s","s","e","m","b","l","y">>,
    <<"S","e","n","a","t","e">>,
    <<"P","a","r","l","i","a","m","e","n","t">>,
    <<"C","o","n","g","r","e","s","s">>,
    <<"C","o","u","n","c","i","l">>,
    <<"C","h","a","m","b","e","r">>,
    <<"H","o","u","s","e"," ","o","f">>,
    <<"D","u","m","a">>,
    <<"D","i","e","t">>,
    <<"S","e","j","m">>,
    <<"S","e","i","m","a","s">>,
    <<"S","t","o","r","t","i","n","g">>,
    <<"B","u","n","d","e","s","t","a","g">>,
    <<"B","u","n","d","e","s","r","a","t">>,
    <<"M","a","j","l","i","s">>,
    <<"S","h","u","r","a">>,
    <<"T","r","i","b","u","n","a","l">>,
    <<"C","o","u","r","t">>,
    <<"S","t","a","t","e","n">>,
    <<"K","n","e","s","s","e","t">>,
    <<"H","u","r","a","l">>,
    <<"S","o","b","r","a","n","j","e">>,
    <<"S","o","v","i","e","t">>,
    <<"K","e","n","e","s","h","o","m">>,
    <<"F","o","l","k","e","t","i","n","g">>,
    <<"F","o","n","o">>,
    <<"L","e","g","i","s","l","a","t","i","v","e"," ","Y","u","a","n">>,
    <<"L","a","g","t","i","n","g">>,
    <<"M","a","j","i","l","i","s">>,
    <<"P","r","e","s","i","d","e","n","t","i","a","l"," ","A","d","m","i","n","i","s","t","r","a","t","i","o","n">>,
    <<"G","r","o","u","p"," ","o","f"," ","A","s","s","i","s","t","a","n","t","s">>,
    <<"A","r","m","e","d"," ","F","o","r","c","e","s">>,
    <<"K","R","A","F">>
  >>

NOISE_PHRASES ==
  <<
    <<"c","o","n","s","i","s","t","s"," ","m","a","i","n","l","y"," ","o","f">>,
    <<"i","n","c","l","u","d","e","s"," ","t","h","e"," ","f","o","l","l","o","w","i","n","g">>,
    <<"s","e","a","t"," ","d","i","s","t","r","i","b","u","t","i","o","n">>,
    <<"c","o","a","l","i","t","i","o","n"," ","o","f">>,
    <<"m","a","d","e"," ","u","p"," ","o","f">>,
    <<"a","s"," ","f","o","l","l","o","w","s">>,
    <<"c","o","u","n","t","r","i","e","s"," ","h","a","v","e"," ","f","i","g","u","r","e","s">>,
    <<"u","n","d","e","r","d","e","v","e","l","o","p","e","d"," ","c","o","u","n","t","r","i","e","s">>,
    <<"u","n","d","e","v","e","l","o","p","e","d"," ","c","o","u","n","t","r","i","e","s">>,
    <<"s","e","a","r","c","h"," ","f","o","r">>,
    <<"m","a","i","l","i","n","g"," ","a","d","d","r","e","s","s">>,
    <<"w","e","r","e"," ","h","e","l","d"," ","a","t">>,
    <<"m","u","t","u","a","l","l","y"," ","s","u","p","p","o","r","t","i","v","e">>,
    <<"t","y","p","e","s"," ","o","f"," ","f","i","n","i","s","h","e","d"," ","i","n","t","e","l","l","i","g","e","n","c","e">>,
    <<"m","a","y"," ","b","e"," ","c","a","t","e","g","o","r","i","z","e","d">>,
    <<"p","e","n","d","i","n","g"," ","a","c","c","e","p","t","a","b","l","e"," ","d","e","f","i","n","i","t","i","o","n">>,
    <<"o","n","e"," ","a","d","d","i","t","i","o","n","a","l"," ","c","a","u","t","i","o","n">>,
    <<"r","e","a","l"," ","o","u","t","p","u","t"," ","h","a","s"," ","r","e","m","a","i","n","e","d">>,
    <<"p","a","r","t","y"," ","r","u","l","i","n","g"," ","c","o","a","l","i","t","i","o","n">>,
    <<"a","n","t","i","-","m","a","r","k","e","t"," ","a","n","d">>,
    <<"u","n","i","o","n",","," ","t","w","o"," ","g","e","r","m","a","n">>,
    <<"f","a","c","t","b","o","o","k"," ","t","h","a","t"," ","m","a","y">>,
    <<"a","c","c","e","p","t","a","b","l","e"," ","d","e","f","i","n","i","t","i","o","n"," ","o","f"," ","t","h","e"," ","b","o","u","n","d","a","r","i","e","s">>,
    <<"c","o","m","m","e","n","t","s"," ","a","n","d"," ","q","u","e","r","i","e","s"," ","a","r","e"," ","w","e","l","c","o","m","e">>
  >>

SUB_FIELD_LABELS ==
  {
    <<"a","d","j","e","c","t","i","v","e">>,
    <<"a","r","a","b","l","e"," ","l","a","n","d">>,
    <<"b","r","a","n","c","h"," ","o","f","f","i","c","e">>,
    <<"b","u","s","i","n","e","s","s"," ","o","r","g","a","n","i","z","a","t","i","o","n","s">>,
    <<"b","y"," ","o","c","c","u","p","a","t","i","o","n">>,
    <<"c","a","b","i","n","e","t">>,
    <<"c","a","p","a","c","i","t","y">>,
    <<"c","h","a","n","c","e","r","y">>,
    <<"c","h","i","e","f"," ","o","f"," ","m","i","s","s","i","o","n">>,
    <<"c","h","i","e","f"," ","o","f"," ","s","t","a","t","e">>,
    <<"c","h","i","e","f"," ","o","f"," ","s","t","a","t","e"," ","a","n","d"," ","h","e","a","d"," ","o","f"," ","g","o","v","e","r","n","m","e","n","t">>,
    <<"c","o","m","m","o","d","i","t","i","e","s">>,
    <<"c","o","n","s","u","l","a","t","e","(","s",")">>,
    <<"c","o","n","s","u","l","a","t","e","(","s",")"," ","g","e","n","e","r","a","l">>,
    <<"c","o","n","s","u","m","p","t","i","o","n"," ","p","e","r"," ","c","a","p","i","t","a">>,
    <<"c","o","n","v","e","n","t","i","o","n","a","l"," ","l","o","n","g"," ","f","o","r","m">>,
    <<"c","o","n","v","e","n","t","i","o","n","a","l"," ","s","h","o","r","t"," ","f","o","r","m">>,
    <<"d","o","n","o","r">>,
    <<"e","a","s","t","e","r","n">>,
    <<"e","l","e","c","t","i","o","n"," ","r","e","s","u","l","t","s">>,
    <<"e","l","e","c","t","i","o","n","s">>,
    <<"e","m","b","a","s","s","y">>,
    <<"e","x","p","e","n","d","i","t","u","r","e","s">>,
    <<"f","e","m","a","l","e">>,
    <<"f","o","r","e","s","t"," ","a","n","d"," ","w","o","o","d","l","a","n","d">>,
    <<"f","o","r","m","e","r">>,
    <<"h","e","a","d"," ","o","f"," ","g","o","v","e","r","n","m","e","n","t">>,
    <<"i","n","t","e","r","n","a","t","i","o","n","a","l"," ","a","g","r","e","e","m","e","n","t","s">>,
    <<"l","o","c","a","l"," ","l","o","n","g"," ","f","o","r","m">>,
    <<"l","o","c","a","l"," ","s","h","o","r","t"," ","f","o","r","m">>,
    <<"m","a","l","e">>,
    <<"m","e","a","d","o","w","s"," ","a","n","d"," ","p","a","s","t","u","r","e","s">>,
    <<"n","o","r","t","h">>,
    <<"n","o","r","t","h","e","a","s","t">>,
    <<"n","o","r","t","h","w","e","s","t">>,
    <<"n","o","u","n">>,
    <<"o","t","h","e","r">>,
    <<"p","a","r","t","n","e","r","s">>,
    <<"p","a","v","e","d">>,
    <<"p","e","r","m","a","n","e","n","t"," ","c","r","o","p","s">>,
    <<"p","r","o","d","u","c","t","i","o","n">>,
    <<"r","e","c","i","p","i","e","n","t">>,
    <<"r","e","v","e","n","u","e","s">>,
    <<"s","o","u","t","h">>,
    <<"s","o","u","t","h","e","a","s","t">>,
    <<"s","o","u","t","h","w","e","s","t">>,
    <<"s","u","p","r","e","m","e"," ","l","e","a","d","e","r"," ","a","n","d"," ","f","u","n","c","t","i","o","n","a","l"," ","c","h","i","e","f"," ","o","f"," ","s","t","a","t","e">>,
    <<"t","a","t","a","l"," ","p","o","p","u","l","a","t","i","o","n">>,
    <<"t","o","t","a","l">>,
    <<"t","o","t","a","l"," ","p","o","p","u","l","a","t","i","o","n">>,
    <<"u","n","d","i","f","f","e","r","e","n","t","i","a","t","e","d">>,
    <<"u","n","p","a","v","e","d">>,
    <<"u","s","a","b","l","e">>,
    <<"w","a","t","e","r"," ","a","r","e","a">>,
    <<"w","e","s","t","e","r","n">>,
    <<"w","e","s","t","e","r","n","-","d","o","n","o","r">>
  }

REGIONAL_ENTRIES ==
  {
    <<"B","o","n","a","i","r","e">>,
    <<"B","r","i","t","i","s","h"," ","p","o","u","n","d","s">>,
    <<"C","a","n","a","d","i","a","n"," ","d","o","l","l","a","r","s">>,
    <<"C","u","r","a","c","a","o">>,
    <<"C","y","p","r","i","o","t"," ","a","r","e","a">>,
    <<"E","n","g","l","a","n","d">>,
    <<"F","r","e","n","c","h"," ","f","r","a","n","c","s">>,
    <<"G","e","r","m","a","n"," ","d","e","u","t","s","c","h","e"," ","m","a","r","k","s">>,
    <<"G","e","r","m","a","n","y">>,
    <<"G","r","e","e","k"," ","C","y","p","r","i","o","t">>,
    <<"G","r","e","e","k"," ","a","r","e","a">>,
    <<"G","r","e","e","k"," ","a","r","e","a"," ","-"," ","a","g","r","i","c","u","l","t","u","r","e">>,
    <<"G","r","e","e","k"," ","a","r","e","a"," ","-"," ","i","n","d","u","s","t","r","y">>,
    <<"G","r","e","e","k"," ","a","r","e","a"," ","-"," ","p","a","v","e","d">>,
    <<"G","r","e","e","k"," ","a","r","e","a"," ","-"," ","r","e","c","i","p","i","e","n","t">>,
    <<"G","r","e","e","k"," ","a","r","e","a"," ","-"," ","s","e","r","v","i","c","e","s">>,
    <<"G","r","e","e","k"," ","a","r","e","a"," ","-"," ","t","o","t","a","l">>,
    <<"G","r","e","e","k"," ","a","r","e","a"," ","-"," ","u","n","p","a","v","e","d">>,
    <<"G","r","e","e","k"," ","s","e","c","t","o","r">>,
    <<"H","e","r","z","e","g","o","v","i","n","a">>,
    <<"H","o","m","e"," ","I","s","l","a","n","d">>,
    <<"I","t","a","l","i","a","n"," ","l","i","r","e">>,
    <<"J","a","p","a","n","e","s","e"," ","y","e","n">>,
    <<"M","o","n","t","e","n","e","g","r","o">>,
    <<"M","o","n","t","e","n","e","g","r","o"," ","-"," ","0","-","1","4"," ","y","e","a","r","s">>,
    <<"M","o","n","t","e","n","e","g","r","o"," ","-"," ","1","5","-","6","4"," ","y","e","a","r","s">>,
    <<"M","o","n","t","e","n","e","g","r","o"," ","-"," ","6","5"," ","y","e","a","r","s"," ","a","n","d"," ","o","v","e","r">>,
    <<"M","o","n","t","e","n","e","g","r","o"," ","-"," ","a","l","l"," ","a","g","e","s">>,
    <<"M","o","n","t","e","n","e","g","r","o"," ","-"," ","a","t"," ","b","i","r","t","h">>,
    <<"M","o","n","t","e","n","e","g","r","o"," ","-"," ","f","e","m","a","l","e">>,
    <<"M","o","n","t","e","n","e","g","r","o"," ","-"," ","m","a","l","e">>,
    <<"M","o","n","t","e","n","e","g","r","o"," ","-"," ","m","a","l","e","s"," ","a","g","e"," ","1","5","-","4","9">>,
    <<"M","o","n","t","e","n","e","g","r","o"," ","-"," ","m","a","l","e","s"," ","f","i","t"," ","f","o","r"," ","m","i","l","i","t","a","r","y"," ","s","e","r","v","i","c","e">>,
    <<"M","o","n","t","e","n","e","g","r","o"," ","-"," ","m","a","l","e","s"," ","r","e","a","c","h"," ","m","i","l","i","t","a","r","y"," ","a","g","e"," ","(","1","9",")"," ","a","n","n","u","a","l","l","y">>,
    <<"M","o","n","t","e","n","e","g","r","o"," ","-"," ","t","o","t","a","l"," ","p","o","p","u","l","a","t","i","o","n">>,
    <<"M","o","n","t","e","n","e","g","r","o"," ","-"," ","u","n","d","e","r"," ","1","5"," ","y","e","a","r","s">>,
    <<"M","o","r","o","c","c","o">>,
    <<"N","o","r","t","h","e","r","n"," ","I","r","e","l","a","n","d">>,
    <<"P","e","n","i","n","s","u","l","a","r"," ","M","a","l","a","y","s","i","a">>,
    <<"R","e","p","u","b","l","i","c">>,
    <<"R","e","p","u","b","l","i","k","a"," ","S","r","p","s","k","a">>,
    <<"S","a","b","a">>,
    <<"S","a","b","a","h">>,
    <<"S","a","r","a","w","a","k">>,
    <<"S","c","o","t","l","a","n","d">>,
    <<"S","e","r","b","i","a">>,
    <<"S","e","r","b","i","a"," ","-"," ","0","-","1","4"," ","y","e","a","r","s">>,
    <<"S","e","r","b","i","a"," ","-"," ","1","5","-","6","4"," ","y","e","a","r","s">>,
    <<"S","e","r","b","i","a"," ","-"," ","6","5"," ","y","e","a","r","s"," ","a","n","d"," ","o","v","e","r">>,
    <<"S","e","r","b","i","a"," ","-"," ","a","l","l"," ","a","g","e","s">>,
    <<"S","e","r","b","i","a"," ","-"," ","a","t"," ","b","i","r","t","h">>,
    <<"S","e","r","b","i","a"," ","-"," ","f","e","m","a","l","e">>,
    <<"S","e","r","b","i","a"," ","-"," ","m","a","l","e">>,
    <<"S","e","r","b","i","a"," ","-"," ","m","a","l","e","s"," ","a","g","e"," ","1","5","-","4","9">>,
    <<"S","e","r","b","i","a"," ","-"," ","m","a","l","e","s"," ","f","i","t"," ","f","o","r"," ","m","i","l","i","t","a","r","y"," ","s","e","r","v","i","c","e">>,
    <<"S","e","r","b","i","a"," ","-"," ","t","o","t","a","l"," ","p","o","p","u","l","a","t","i","o","n">>,
    <<"S","e","r","b","i","a"," ","-"," ","u","n","d","e","r"," ","1","5"," ","y","e","a","r","s">>,
    <<"S","i","n","t"," ","E","u","s","t","a","t","i","u","s">>,
    <<"S","i","n","t"," ","M","a","a","r","t","e","n">>,
    <<"S","u","m","m","e","r"," ","(","J","a","n","u","a","r","y",")"," ","p","o","p","u","l","a","t","i","o","n">>,
    <<"S","u","m","m","e","r"," ","o","n","l","y"," ","s","t","a","t","i","o","n","s">>,
    <<"S","u","m","m","e","r","-","o","n","l","y"," ","s","t","a","t","i","o","n","s">>,
    <<"S","w","i","s","s"," ","n","a","t","i","o","n","a","l","s">>,
    <<"T","u","r","k","i","s","h"," ","A","r","e","a">>,
    <<"T","u","r","k","i","s","h"," ","C","y","p","r","i","o","t"," ","a","r","e","a">>,
    <<"T","u","r","k","i","s","h"," ","a","r","e","a">>,
    <<"T","u","r","k","i","s","h"," ","a","r","e","a"," ","-"," ","a","g","r","i","c","u","l","t","u","r","e">>,
    <<"T","u","r","k","i","s","h"," ","a","r","e","a"," ","-"," ","i","n","d","u","s","t","r","y">>,
    <<"T","u","r","k","i","s","h"," ","a","r","e","a"," ","-"," ","p","a","v","e","d">>,
    <<"T","u","r","k","i","s","h"," ","a","r","e","a"," ","-"," ","s","e","r","v","i","c","e","s">>,
    <<"T","u","r","k","i","s","h"," ","a","r","e","a"," ","-"," ","t","o","t","a","l">>,
    <<"T","u","r","k","i","s","h"," ","a","r","e","a"," ","-"," ","u","n","p","a","v","e","d">>,
    <<"T","u","r","k","i","s","h"," ","s","e","c","t","o","r">>,
    <<"W","a","l","e","s">>,
    <<"W","e","s","t"," ","I","s","l","a","n","d">>,
    <<"W","i","n","t","e","r"," ","(","J","u","l","y",")"," ","p","o","p","u","l","a","t","i","o","n">>,
    <<"Y","e","a","r","-","r","o","u","n","d"," ","s","t","a","t","i","o","n","s">>,
    <<"Z","a","n","z","i","b","a","r">>
  }

MISC_REFERENCE ==
  {
    <<"A","C","I","C"," ","M"," ","4","9","-","1">>,
    <<"A","b","b","r","e","v","i","a","t","i","o","n">>,
    <<"A","b","b","r","e","v","i","a","t","i","o","n","s">>,
    <<"A","f","f","i","l","i","a","t","i","o","n">>,
    <<"A","n","t","a","r","c","t","i","c"," ","T","r","e","a","t","y"," ","S","u","m","m","a","r","y">>,
    <<"A","p","p","e","n","d","i","x","e","s">>,
    <<"C","o","m","m","u","n","i","c","a","t","i","o","n","s">>,
    <<"C","o","u","n","t","r","y"," ","m","a","p">>,
    <<"D","I","A","M"," ","6","5","-","1","8">>,
    <<"D","a","t","a"," ","c","o","d","e">>,
    <<"D","a","t","a"," ","c","o","d","e","s","-","c","o","u","n","t","r","y">>,
    <<"D","a","t","a"," ","c","o","d","e","s","-","h","y","d","r","o","g","r","a","p","h","i","c">>,
    <<"D","a","t","e","s"," ","o","f"," ","i","n","f","o","r","m","a","t","i","o","n">>,
    <<"D","i","g","r","a","p","h">>,
    <<"D","i","g","r","a","p","h","s">>,
    <<"E","c","o","n","o","m","y">>,
    <<"E","n","t","i","t","i","e","s">>,
    <<"E","n","v","i","r","o","n","m","e","n","t","a","l"," ","A","g","r","e","e","m","e","n","t","s"," ","a","n","d"," ","A","p","p","e","n","d","i","x"," ","E">>,
    <<"E","n","v","i","r","o","n","m","e","n","t","a","l"," ","a","g","r","e","e","m","e","n","t","s">>,
    <<"F","I","P","S"," ","1","0","-","4">>,
    <<"F","l","a","g"," ","g","r","a","p","h","i","c">>,
    <<"G","D","P"," ","m","e","t","h","o","d","o","l","o","g","y">>,
    <<"G","N","P","/","G","D","P"," ","m","e","t","h","o","d","o","l","o","g","y">>,
    <<"G","W","P"," ","(","g","r","o","s","s"," ","w","o","r","l","d"," ","p","r","o","d","u","c","t",")">>,
    <<"G","e","o","g","r","a","p","h","i","c"," ","n","a","m","e","s">>,
    <<"G","e","o","g","r","a","p","h","y">>,
    <<"G","r","o","s","s"," ","d","o","m","e","s","t","i","c"," ","p","r","o","d","u","c","t">>,
    <<"G","r","o","s","s"," ","d","o","m","e","s","t","i","c"," ","p","r","o","d","u","c","t"," ","(","G","D","P",")">>,
    <<"G","r","o","s","s"," ","n","a","t","i","o","n","a","l"," ","p","r","o","d","u","c","t">>,
    <<"G","r","o","s","s"," ","n","a","t","i","o","n","a","l"," ","p","r","o","d","u","c","t"," ","(","G","N","P",")">>,
    <<"G","r","o","s","s"," ","w","o","r","l","d"," ","p","r","o","d","u","c","t">>,
    <<"G","r","o","s","s"," ","w","o","r","l","d"," ","p","r","o","d","u","c","t"," ","(","G","W","P",")">>,
    <<"H","i","s","t","o","r","i","c","a","l"," ","p","e","r","s","p","e","c","t","i","v","e">>,
    <<"I","H","O"," ","2","3","-","3","r","d">>,
    <<"I","H","O"," ","2","3","-","4","t","h">>,
    <<"I","S","O"," ","3","1","6","6">>,
    <<"I","n","t","e","r","n","a","t","i","o","n","a","l"," ","o","r","g","a","n","i","z","a","t","i","o","n","s">>,
    <<"I","n","t","r","o","d","u","c","t","i","o","n">>,
    <<"M","a","i","l">>,
    <<"M","a","p","s">>,
    <<"M","e","m","b","e","r">>,
    <<"M","i","l","i","t","a","r","y">>,
    <<"M","o","n","e","y"," ","f","i","g","u","r","e","s">>,
    <<"N","o","t","e">>,
    <<"N","o","t","e","s">>,
    <<"O","t","h","e","r"," ","a","g","r","e","e","m","e","n","t","s">>,
    <<"P","e","o","p","l","e">>,
    <<"R","e","f","e","r","e","n","c","e"," ","m","a","p","s">>,
    <<"S","h","i","p","y","a","r","d","s"," ","a","n","d"," ","S","h","i","p"," ","B","u","i","l","d","i","n","g">>,
    <<"T","e","l","e","p","h","o","n","e"," ","n","u","m","b","e","r","s">>,
    <<"T","e","r","m","i","n","o","l","o","g","y">>,
    <<"T","r","a","n","s","n","a","t","i","o","n","a","l"," ","I","s","s","u","e","s">>,
    <<"T","r","a","n","s","p","o","r","t","a","t","i","o","n">>,
    <<"U","n","i","t","e","d"," ","N","a","t","i","o","n","s"," ","S","y","s","t","e","m">>,
    <<"W","e","b"," ","u","n","i","f","o","r","m"," ","r","e","s","o","u","r","c","e"," ","l","o","c","a","t","o","r"," ","(","U","R","L",")">>,
    <<"W","e","i","g","h","t","s"," ","a","n","d"," ","m","e","a","s","u","r","e","s">>,
    <<"W","o","r","l","d"," ","C","u","p"," ","2","0","2","2">>,
    <<"Y","e","a","r","s">>
  }

\* `name in TABLE` and TABLE[name] of a dict
RenameKeys == {p[1] : p \in KNOWN_RENAMES}
ConsolidationKeys == {p[1] : p \in CONSOLIDATION_MAP}
Lookup(table, key) == (CHOOSE p \in table : p[1] = key)[2]

\* DASH_RE = ^(.+?)(?:--|(?<! )-)(.+)$ : the split the match makes, <<left, right>> in a
\* one-element tuple, or None (a field name carries no line break).  Group 1 is lazy, so the first position k (the length of
\* group 1) that lets the rest match wins; at that position "--" is tried before "-".
DashSplit(name) ==
  LET n == Len(name)
      dbl(k) == StartsAt(name, k + 1, <<"-","-">>) /\ k + 3 <= n
      sgl(k) == k + 1 <= n /\ name[k + 1] = "-" /\ name[k] # " " /\ k + 2 <= n
      ks == {k \in 1..n : dbl(k) \/ sgl(k)}
  IN  IF ks = {} THEN None
      ELSE LET k == MinOf(ks)
           IN  IF dbl(k) THEN Some(<<Sub(name, 1, k), Sub(name, k + 3, n)>>)
               ELSE Some(<<Sub(name, 1, k), Sub(name, k + 2, n)>>)

normalize_dashes(name) ==
  LET m == DashSplit(name)
  IN  IF IsSome(m) THEN Some(Strip(Get(m)[1]) \o <<" ","-"," ">> \o Strip(Get(m)[2])) ELSE None

\* str.isalpha(), str.isupper()
IsAlphaStr(s) == Len(s) > 0 /\ \A i \in 1..Len(s) : s[i] \in AlphaSet
IsUpperStr(s) == (\E i \in 1..Len(s) : s[i] \in UpperSet) /\ (\A i \in 1..Len(s) : s[i] \notin LowerSet)

party_kw == <<<<"p","a","r","t","i","e","s">>, <<"B","l","o","c">>, <<"R","i","g","h","t","i","s","t">>, <<"L","e","f","t","i","s","t">>, <<"P","o","p","u","l","i","s","t">>,
              <<"R","e","s","i","s","t","a","n","c","e"," ","f","o","r","c","e","s">>, <<"R","u","l","i","n","g"," ","c","o","a","l","i","t","i","o","n">>, <<"u","m","b","r","e","l","l","a"," ","g","r","o","u","p">>,
              <<"A","f","r","i","c","a","n","s">>, <<"P","e","o","p","l","e","'","s"," ","A","r","m","y">>>>

\* is_noise with the country-code heuristic one use short: use_count < 5
is_noise_under_five(name, use_count, first_year, last_year) ==
  LET lower == LowerStr(name)
      n == Len(name)
  IN  \/ n <= 2 /\ IsAlphaStr(name)
      \/ EndsWith(name, <<".">>) /\ n <= 6
      \/ IsUpperStr(name) /\ n <= 4 /\ use_count < 5
      \/ n > 0 /\ name[1] \in LowerSet /\ use_count <= 10
      \/ n > 80 /\ use_count <= 3
      \/ \E k \in 1..Len(NOISE_PHRASES) : Contains(lower, NOISE_PHRASES[k])
      \/ StartsWith(name, <<"w","i","t","h"," ","r","u","n">>)
      \/ StartsWith(name, <<"w","i","t","h"," ","p","e","r","m","a","n","e","n","t">>)
      \/ (StartsWith(name, <<"A","r","t","i","c","l","e"," ">>) /\ n >= 9 /\ name[9] \in DigitSet)
      \/ (StartsWith(name, <<"A","r","t","i","c","l","e","s"," ">>) /\ n >= 10 /\ name[10] \in DigitSet)
      \/ (\E i \in 1..n : name[i] = ",") /\ use_count <= 3 /\ n > 40
      \/ name \in SUB_FIELD_LABELS
      \/ /\ last_year <= 2001
         /\ use_count <= 10
         /\ \E k \in 1..Len(party_kw) : Contains(lower, LowerStr(party_kw[k]))
      \/ n > 0 /\ name[1] \in LowerSet /\ first_year <= 1998
      \/ use_count <= 5 /\ last_year <= 2001 /\ n < 40
      \/ StartsWith(name, <<"U","S","-","-">>)
      \/ StartsWith(name, <<"U","S"," ","a","s"," ">>)
      \/ Contains(name, <<"i","n","c","l","u","d","e","s">>) /\ use_count <= 5
      \/ EndsWith(name, <<")">>) /\ use_count <= 3 /\ last_year <= 2001

is_noise(name, use_count, first_year, last_year) ==
  LET lower == LowerStr(name)
      n == Len(name)
  IN  \/ n <= 2 /\ IsAlphaStr(name)
      \/ EndsWith(name, <<".">>) /\ n <= 6
      \/ IsUpperStr(name) /\ n <= 4 /\ use_count <= 5
      \/ n > 0 /\ name[1] \in LowerSet /\ use_count <= 10
      \/ n > 80 /\ use_count <= 3
      \/ \E k \in 1..Len(NOISE_PHRASES) : Contains(lower, NOISE_PHRASES[k])
      \/ StartsWith(name, <<"w","i","t","h"," ","r","u","n">>)
      \/ StartsWith(name, <<"w","i","t","h"," ","p","e","r","m","a","n","e","n","t">>)
      \/ (StartsWith(name, <<"A","r","t","i","c","l","e"," ">>) /\ n >= 9 /\ name[9] \in DigitSet)
      \/ (StartsWith(name, <<"A","r","t","i","c","l","e","s"," ">>) /\ n >= 10 /\ name[10] \in DigitSet)
      \/ (\E i \in 1..n : name[i] = ",") /\ use_count <= 3 /\ n > 40
      \/ name \in SUB_FIELD_LABELS
      \/ /\ last_year <= 2001
         /\ use_count <= 10
         /\ \E k \in 1..Len(party_kw) : Contains(lower, LowerStr(party_kw[k]))
      \/ n > 0 /\ name[1] \in LowerSet /\ first_year <= 1998
      \/ use_count <= 5 /\ last_year <= 2001 /\ n < 40
      \/ StartsWith(name, <<"U","S","-","-">>)
      \/ StartsWith(name, <<"U","S"," ","a","s"," ">>)
      \/ Contains(name, <<"i","n","c","l","u","d","e","s">>) /\ use_count <= 5
      \/ EndsWith(name, <<")">>) /\ use_count <= 3 /\ last_year <= 2001

is_gov_body(name, use_count, first_year, last_year) ==
  IF last_year > 2001 THEN FALSE
  ELSE IF use_count > 100 THEN FALSE
  ELSE \E k \in 1..Len(GOV_BODY_KEYWORDS) : Contains(name, GOV_BODY_KEYWORDS[k])

\* the tuple apply_rules returns
MappingRow(original, canonical, mapping_type, consolidated_to, noise, first_year, last_year,
           use_count, notes) ==
  [original |-> original, canonical |-> canonical, mapping_type |-> mapping_type,
   consolidated_to |-> consolidated_to, is_noise |-> noise, first_year |-> first_year,
   last_year |-> last_year, use_count |-> use_count, notes |-> notes]

\* apply_rules with one of its rules misplaced or miswritten:
\*   "noise_first"   the noise heuristics are tried before the rename table
\*   "dash_modern"   the normalized name is looked up in the modern names before the renames
\*   "merge_parent"  a consolidated sub-field takes its parent's name
\*   "dash_no_parent"  a dash-normalized consolidation key loses its parent
\*   "empty_modern"  with no modern name at all, every name is passed through
\*   "dash_plain"    the dash rule keeps the normalized rename key as canonical name
apply_rules_variant(original, first_year, last_year, use_count, modern_names, bug) ==
  LET normalized == normalize_dashes(original)
      norm == Get(normalized)
      row(canonical, mapping_type, consolidated_to, noise, notes) ==
        MappingRow(original, canonical, mapping_type, consolidated_to, noise,
                   first_year, last_year, use_count, notes)
  IN  IF bug = "empty_modern" /\ modern_names = {}
        THEN row(original, "manual", None, FALSE, None)
      ELSE IF original \in modern_names /\ original \notin RenameKeys
        THEN row(original, "identity", None, FALSE, None)
      ELSE IF bug = "noise_first" /\ is_noise(original, use_count, first_year, last_year)
        THEN row(original, "noise", None, TRUE, None)
      ELSE IF IsSome(normalized) /\ bug = "dash_modern" /\ norm \in modern_names
        THEN row(norm, "dash_format", None, FALSE, Some(<<"d","a","s","h"," ","-",">"," ">> \o norm))
      ELSE IF IsSome(normalized) /\ norm \in RenameKeys
        THEN row(IF bug = "dash_plain" THEN norm ELSE Lookup(KNOWN_RENAMES, norm),
                 "dash_format", None, FALSE,
                 Some(<<"d","a","s","h"," ","-",">"," ">> \o norm \o <<" ","-",">"," ">> \o Lookup(KNOWN_RENAMES, norm)))
      ELSE IF IsSome(normalized) /\ norm \in modern_names
        THEN row(norm, "dash_format", None, FALSE, Some(<<"d","a","s","h"," ","-",">"," ">> \o norm))
      ELSE IF IsSome(normalized) /\ norm \in ConsolidationKeys
        THEN row(norm, "dash_format",
                 IF bug = "dash_no_parent" THEN None ELSE Some(Lookup(CONSOLIDATION_MAP, norm)),
                 FALSE,
                 Some(<<"d","a","s","h"," ","-",">"," ">> \o norm \o <<" ","(","c","o","n","s","o","l","i","d","a","t","e","d",")">>))
      ELSE IF original \in RenameKeys
        THEN row(Lookup(KNOWN_RENAMES, original), "rename", None, FALSE, None)
      ELSE IF original \in ConsolidationKeys
        THEN row(IF bug = "merge_parent" THEN Lookup(CONSOLIDATION_MAP, original) ELSE original,
                 "consolidation", Some(Lookup(CONSOLIDATION_MAP, original)), FALSE, None)
      ELSE IF is_gov_body(original, use_count, first_year, last_year)
        THEN row(<<"L","e","g","i","s","l","a","t","i","v","e"," ","b","r","a","n","c","h">>, "country_specific", None, FALSE, None)
      ELSE IF original \in REGIONAL_ENTRIES
        THEN row(original, "country_specific", None, FALSE, Some(<<"r","e","g","i","o","n","a","l"," ","s","u","b","-","e","n","t","r","y">>))
      ELSE IF original \in MISC_REFERENCE
        THEN row(original, "country_specific", None, FALSE, Some(<<"r","e","f","e","r","e","n","c","e"," ","e","n","t","r","y">>))
      ELSE IF is_noise(original, use_count, first_year, last_year)
        THEN row(original, "noise", None, TRUE, None)
      ELSE row(original, "manual", None, FALSE, None)

apply_rules_noise_first(original, first_year, last_year, use_count, modern_names) ==
  apply_rules_variant(original, first_year, last_year, use_count, modern_names, "noise_first")

apply_rules_dash_modern(original, first_year, last_year, use_count, modern_names) ==
  apply_rules_variant(original, first_year, last_year, use_count, modern_names, "dash_modern")

apply_rules_merge_parent(original, first_year, last_year, use_count, modern_names) ==
  apply_rules_variant(original, first_year, last_year, use_count, modern_names, "merge_parent")

apply_rules_dash_no_parent(original, first_year, last_year, use_count, modern_names) ==
  apply_rules_variant(original, first_year, last_year, use_count, modern_names, "dash_no_parent")

apply_rules_empty_modern(original, first_year, last_year, use_count, modern_names) ==
  apply_rules_variant(original, first_year, last_year, use_count, modern_names, "empty_modern")

apply_rules_dash_plain(original, first_year, last_year, use_count, modern_names) ==
  apply_rules_variant(original, first_year, last_year, use_count, modern_names, "dash_plain")

apply_rules(original, first_year, last_year, use_count, modern_names) ==
  LET normalized == normalize_dashes(original)
      norm == Get(normalized)
      row(canonical, mapping_type, consolidated_to, noise, notes) ==
        MappingRow(original, canonical, mapping_type, consolidated_to, noise,
                   first_year, last_year, use_count, notes)
  IN  \* Rule 1: identity
      IF original \in modern_names /\ original \notin RenameKeys
        THEN row(original, "identity", None, FALSE, None)
      \* Rule 2: dash normalization
      ELSE IF IsSome(normalized) /\ norm \in RenameKeys
        THEN row(Lookup(KNOWN_RENAMES, norm), "dash_format", None, FALSE,
                 Some(<<"d","a","s","h"," ","-",">"," ">> \o norm \o <<" ","-",">"," ">> \o Lookup(KNOWN_RENAMES, norm)))
      ELSE IF IsSome(normalized) /\ norm \in modern_names
        THEN row(norm, "dash_format", None, FALSE, Some(<<"d","a","s","h"," ","-",">"," ">> \o norm))
      ELSE IF IsSome(normalized) /\ norm \in ConsolidationKeys
        THEN row(norm, "dash_format", Some(Lookup(CONSOLIDATION_MAP, norm)), FALSE,
                 Some(<<"d","a","s","h"," ","-",">"," ">> \o norm \o <<" ","(","c","o","n","s","o","l","i","d","a","t","e","d",")">>))
      \* Rule 3: known renames
      ELSE IF original \in RenameKeys
        THEN row(Lookup(KNOWN_RENAMES, original), "rename", None, FALSE, None)
      \* Rule 4: consolidation
      ELSE IF original \in ConsolidationKeys
        THEN row(original, "consolidation", Some(Lookup(CONSOLIDATION_MAP, original)),
                 FALSE, None)
      \* Rule 5: country-specific government bodies
      ELSE IF is_gov_body(original, use_count, first_year, last_year)
        THEN row(<<"L","e","g","i","s","l","a","t","i","v","e"," ","b","r","a","n","c","h">>, "country_specific", None, FALSE, None)
      \* Rule 5b, 5c: regional sub-entries, reference entries
      ELSE IF original \in REGIONAL_ENTRIES
        THEN row(original, "country_specific", None, FALSE, Some(<<"r","e","g","i","o","n","a","l"," ","s","u","b","-","e","n","t","r","y">>))
      ELSE IF original \in MISC_REFERENCE
        THEN row(original, "country_specific", None, FALSE, Some(<<"r","e","f","e","r","e","n","c","e"," ","e","n","t","r","y">>))
      \* Rule 6: noise
      ELSE IF is_noise(original, use_count, first_year, last_year)
        THEN row(original, "noise", None, TRUE, None)
      \* Rule 7: unmapped
      ELSE row(original, "manual", None, FALSE, None)

-----------------------------------------------------------------------------
(* etl/structured_parsing/parse_field_values.py: utility functions *)

\* BATCH_SIZE (10000 in the source, line 35), MAX_FRAG_LEN (500, line 36) and the length
\* str(content)[:4000] keeps (lines 1441 and 1588) are scaled down so that a batch fills
\* and a text is cut within the sizes of the inputs below; MAX_FRAG_LEN < MAX_TEXT_LEN
\* as in the source.
BATCH_SIZE == 3
MAX_FRAG_LEN == 12
MAX_TEXT_LEN == 20

\* the character at position i, or "" past either end
CharAt(s, i) == IF i >= 1 /\ i <= Len(s) THEN s[i] ELSE ""

\* re.search from position pos on: the leftmost position where At holds, or 0
SearchFrom(s, pos, At(_)) ==
  LET ps == {p \in pos..Len(s) : At(p)}
  IN  IF ps = {} THEN 0 ELSE MinOf(ps)

Search(s, At(_)) == SearchFrom(s, 1, At)

\* s.replace(',', '')
RemoveCommas(s) == SelectSeq(s, LAMBDA c : c # ",")

\* s.replace(' ', '_')
SpacesToUnderscores(s) == [i \in 1..Len(s) |-> IF s[i] = " " THEN "_" ELSE s[i]]

DigitVal(c) ==
  CASE c = "0" -> 0 [] c = "1" -> 1 [] c = "2" -> 2 [] c = "3" -> 3 [] c = "4" -> 4
    [] c = "5" -> 5 [] c = "6" -> 6 [] c = "7" -> 7 [] c = "8" -> 8 [] c = "9" -> 9

\* int(s) of a digit string
RECURSIVE DigitsVal(_)
DigitsVal(ds) ==
  IF ds = <<>> THEN 0 ELSE DigitsVal(SubSeq(ds, 1, Len(ds) - 1)) * 10 + DigitVal(ds[Len(ds)])

\* str(n) of a natural number
RECURSIVE NatToStr(_)
NatToStr(n) ==
  LET d == <<"0","1","2","3","4","5","6","7","8","9">>[(n % 10) + 1]
  IN  IF n < 10 THEN <<d>> ELSE NatToStr(n \div 10) \o <<d>>

\* A float is the decimal number m * 10^e, kept normalized: m is not a multiple of 10,
\* and zero is [m |-> 0, e |-> 0].
RECURSIVE Normalize(_, _)
Normalize(m, e) ==
  IF m = 0 THEN [m |-> 0, e |-> 0]
  ELSE IF m % 10 = 0 THEN Normalize(m \div 10, e + 1)
  ELSE [m |-> m, e |-> e]

\* float(s) raises ValueError unless s is an optional sign, digits and at most one point,
\* with at least one digit (the only characters the callers' patterns let through are
\* digits, ".", "-" and surrounding blanks)
FloatOK(s0) ==
  With(Strip(s0), LAMBDA s :
  With(IF CharAt(s, 1) = "-" THEN Sub(s, 2, Len(s)) ELSE s, LAMBDA body :
    /\ \A i \in 1..Len(body) : body[i] \in DigitSet \cup {"."}
    /\ Cardinality({i \in 1..Len(body) : body[i] = "."}) <= 1
    /\ \E i \in 1..Len(body) : body[i] \in DigitSet))

\* float(s) where it does not raise
Float(s0) ==
  With(Strip(s0), LAMBDA s :
  With(IF CharAt(s, 1) = "-" THEN Sub(s, 2, Len(s)) ELSE s, LAMBDA body :
  With(MinOf({i \in 1..Len(body) : body[i] = "."} \cup {Len(body) + 1}), LAMBDA dot :
  With(Sub(body, dot + 1, Len(body)), LAMBDA frac :
    Normalize((IF CharAt(s, 1) = "-" THEN 0 - 1 ELSE 1) * DigitsVal(Sub(body, 1, dot - 1) \o frac),
              0 - Len(frac))))))

\* val *= 1eK
Scale(v, k) == IF v.m = 0 THEN v ELSE [m |-> v.m, e |-> v.e + k]

parse_number(s) ==
  IF s = <<>> THEN None
  ELSE With(RemoveCommas(Strip(s)), LAMBDA t : IF FloatOK(t) THEN Some(Float(t)) ELSE None)

\* "(" \d{4} \s* est \.? ")" at position p: [ok, year, stop], stop the position after ")"
YearEstAt(s, p, ignorecase) ==
  With(Span(s, p + 5, SpaceSet), LAMBDA a :
  With(IF CharAt(s, a + 3) = "." THEN a + 4 ELSE a + 3, LAMBDA b :
  With(/\ CharAt(s, p) = "("
       /\ \A k \in 1..4 : CharAt(s, p + k) \in DigitSet
       /\ IF ignorecase THEN StartsAtCI(s, a, <<"e","s","t">>) ELSE StartsAt(s, a, <<"e","s","t">>)
       /\ CharAt(s, b) = ")", LAMBDA ok :
    [ok |-> ok, year |-> IF ok THEN Sub(s, p + 1, p + 4) ELSE <<>>,
     inner |-> IF ok THEN Sub(s, p + 1, b - 1) ELSE <<>>, stop |-> b + 1])))

\* \((FY\d{2,4}/?(?:\d{2})?)\) at position p: the group, or None
FiscalYearAt(s, p) ==
  With(Span(s, p + 3, DigitSet), LAMBDA q :
  With(Span(s, q + 1, DigitSet), LAMBDA q2 :
  With(IF CharAt(s, q) = "/" THEN q2 ELSE q, LAMBDA stop :
    IF /\ StartsAt(s, p, <<"(","F","Y">>)
       /\ IF CharAt(s, q) = "/"
          THEN q - (p + 3) >= 2 /\ q - (p + 3) <= 4 /\ q2 - (q + 1) \in {0, 2}
          ELSE q - (p + 3) >= 2 /\ q - (p + 3) <= 6
       /\ CharAt(s, stop) = ")"
    THEN Some(Sub(s, p + 1, stop - 1)) ELSE None)))

BareYearAt(s, p) ==
  /\ CharAt(s, p) = "("
  /\ \A k \in 1..4 : CharAt(s, p + k) \in DigitSet
  /\ CharAt(s, p + 5) = ")"

extract_date_est(s) ==
  With({p \in 1..Len(s) : YearEstAt(s, p, FALSE).ok}, LAMBDA p1 :
    IF p1 # {} THEN Some(YearEstAt(s, MinOf(p1), FALSE).inner)
    ELSE With({p \in 1..Len(s) : IsSome(FiscalYearAt(s, p))}, LAMBDA p2 :
      IF p2 # {} THEN FiscalYearAt(s, MinOf(p2))
      ELSE With({p \in 1..Len(s) : BareYearAt(s, p)} \cup {Len(s) + 1}, LAMBDA p3 :
        IF MinOf(p3) <= Len(s) THEN Some(Sub(s, MinOf(p3) + 1, MinOf(p3) + 4)) ELSE None)))

RankLiteral == <<"c","o","u","n","t","r","y"," ","c","o","m","p","a","r","i","s","o","n"," ","t","o"," ","t","h","e"," ","w","o","r","l","d",":">>

\* country comparison to the world:\s*(\d+) at position p: the position after it, or 0
RankAt(s, p) ==
  With(Span(s, p + Len(RankLiteral), SpaceSet), LAMBDA d :
  With(Span(s, d, DigitSet), LAMBDA e :
    IF StartsAt(s, p, RankLiteral) /\ e > d THEN e ELSE 0))

extract_rank(s) ==
  With({p \in 1..Len(s) : RankAt(s, p) # 0}, LAMBDA ps :
    IF ps = {} THEN None
    ELSE With(MinOf(ps), LAMBDA p :
           Some(DigitsVal(Sub(s, Span(s, p + Len(RankLiteral), SpaceSet), RankAt(s, p) - 1)))))

\* \s*\|?\s*country comparison to the world:\s*\d+ at position i: the position after it, or 0
RankNoteAt(s, i) ==
  With(Span(s, i, SpaceSet), LAMBDA a :
    RankAt(s, Span(s, IF CharAt(s, a) = "|" THEN a + 1 ELSE a, SpaceSet)))

\* re.sub(pattern, '', s) from position i on
RECURSIVE RemoveRankNotes(_, _)
RemoveRankNotes(s, i) ==
  With(SearchFrom(s, i, LAMBDA p : RankNoteAt(s, p) # 0), LAMBDA p :
    IF p = 0 THEN Sub(s, i, Len(s))
    ELSE Sub(s, i, p - 1) \o RemoveRankNotes(s, RankNoteAt(s, p)))

normalize_content(content) ==
  IF content = <<>> THEN <<>> ELSE Strip(RemoveRankNotes(content, 1))

make_row(field_id, sub_field, numeric_val, units, text_val, date_est, rank, source_frag) ==
  [field_id |-> field_id, sub_field |-> sub_field, numeric_val |-> numeric_val,
   units |-> units, text_val |-> text_val, date_est |-> date_est, rank |-> rank,
   source_frag |-> IF IsSome(source_frag) /\ Len(Get(source_frag)) > MAX_FRAG_LEN
                     THEN Some(Take(Get(source_frag), MAX_FRAG_LEN))
                     ELSE source_frag]

\* what an extractor does: it returns rows, or it raises
Returned(rows) == [exc |-> FALSE, rows |-> rows]
Raised == [exc |-> TRUE, rows |-> <<>>]

-----------------------------------------------------------------------------
(* etl/structured_parsing/parse_field_values.py: field-specific parsers *)

NumCommaSet == DigitSet \cup {","}
NumDotSet == DigitSet \cup {"."}
NumDotCommaSet == DigitSet \cup {".", ","}

\* <label>\s*:?\s*([\d,]+)\s*(?:sq\s*km|km2) under re.IGNORECASE at position i:
\* [ok, num (group 1), stop]
AreaLabelAt(s, i, label) ==
  With(Span(s, i + Len(label), SpaceSet), LAMBDA a :
  With(Span(s, IF CharAt(s, a) = ":" THEN a + 1 ELSE a, SpaceSet), LAMBDA c :
  With(Span(s, c, NumCommaSet), LAMBDA d :
  With(Span(s, d, SpaceSet), LAMBDA e :
  With(Span(s, e + 2, SpaceSet), LAMBDA f :
  With(StartsAtCI(s, e, <<"s","q">>) /\ StartsAtCI(s, f, <<"k","m">>), LAMBDA sqkm :
  With(StartsAtCI(s, i, label) /\ d > c /\ (sqkm \/ StartsAtCI(s, e, <<"k","m","2">>)), LAMBDA ok :
    [ok |-> ok, num |-> IF ok THEN Sub(s, c, d - 1) ELSE <<>>,
     stop |-> IF sqkm THEN f + 2 ELSE e + 3])))))))

\* the end of \s*(?:note|$) at position q, or 0
NoteOrEndAt(s, q) ==
  With(Span(s, q, SpaceSet), LAMBDA w :
    IF w > Len(s) THEN w ELSE IF StartsAtCI(s, w, <<"n","o","t","e">>) THEN w + 4 ELSE 0)

\* comparative\s*(?:area)?\s*:?\s*(.+?)(?:\s*(?:note|$)) under re.IGNORECASE at position i:
\* [ok, from, to (group 1 is s[from..to]), stop].  The prefix is greedy; when it has eaten
\* the rest of the text, the matcher gives back the ":" and then the "area" to group 1.
ComparativeAt(s, i) ==
  With(Span(s, i + 11, SpaceSet), LAMBDA a :
  With(StartsAtCI(s, a, <<"a","r","e","a">>), LAMBDA area :
  With(IF area THEN a + 4 ELSE a, LAMBDA b :
  With(Span(s, b, SpaceSet), LAMBDA c :
  With(IF CharAt(s, c) = ":" THEN c + 1 ELSE c, LAMBDA d :
  With(Span(s, d, SpaceSet), LAMBDA e :
  With(IF e <= Len(s) THEN e
       ELSE IF e > d THEN Len(s)
       ELSE IF d > c THEN c
       ELSE IF c > b THEN Len(s)
       ELSE IF area THEN a
       ELSE IF a > i + 11 THEN Len(s)
       ELSE 0, LAMBDA from :
    IF StartsAtCI(s, i, <<"c","o","m","p","a","r","a","t","i","v","e">>) /\ from # 0
    THEN With(SearchFrom(s, from, LAMBDA t : NoteOrEndAt(s, t + 1) # 0), LAMBDA to :
           [ok |-> TRUE, from |-> from, to |-> to, stop |-> NoteOrEndAt(s, to + 1)])
    ELSE [ok |-> FALSE, from |-> from, to |-> 0, stop |-> 0])))))))

\* note\s*:?\s*(.+) under re.IGNORECASE at position i: the start of group 1, or 0
NoteAt(s, i) ==
  With(Span(s, i + 4, SpaceSet), LAMBDA a :
  With(IF CharAt(s, a) = ":" THEN a + 1 ELSE a, LAMBDA b :
  With(Span(s, b, SpaceSet), LAMBDA c :
    IF ~StartsAtCI(s, i, <<"n","o","t","e">>) THEN 0
    ELSE IF c <= Len(s) THEN c
    ELSE IF c > b THEN Len(s)
    ELSE IF b > a THEN a
    ELSE IF a > i + 4 THEN Len(s)
    ELSE 0)))

AreaLabels == <<<<"t","o","t","a","l"," ","a","r","e","a">>, <<"t","o","t","a","l">>, <<"l","a","n","d"," ","a","r","e","a">>, <<"l","a","n","d">>, <<"w","a","t","e","r">>>>

\* label.replace(' area', '')
AreaSub(label) == IF EndsWith(label, <<" ","a","r","e","a">>) THEN Sub(label, 1, Len(label) - 5) ELSE label

\* the loop body of parse_area for one label: the label's row, if the label is found
AreaLabelRows(field_id, c, label, rank) ==
  With(Search(c, LAMBDA p : AreaLabelAt(c, p, label).ok), LAMBDA p :
    IF p = 0 THEN <<>>
    ELSE With(AreaLabelAt(c, p, label), LAMBDA m :
           <<make_row(field_id, AreaSub(label), parse_number(m.num), Some(<<"s","q"," ","k","m">>), None,
                      extract_date_est(c), IF AreaSub(label) = <<"t","o","t","a","l">> THEN rank ELSE None,
                      Some(Sub(c, p, m.stop - 1)))>>))

RECURSIVE AreaLoop(_, _, _, _)
AreaLoop(field_id, c, k, rank) ==
  IF k > Len(AreaLabels) THEN <<>>
  ELSE AreaLabelRows(field_id, c, AreaLabels[k], rank) \o AreaLoop(field_id, c, k + 1, rank)

AreaComparativeRows(field_id, c) ==
  With(Search(c, LAMBDA p : ComparativeAt(c, p).ok), LAMBDA p :
    IF p = 0 THEN <<>>
    ELSE With(ComparativeAt(c, p), LAMBDA m :
           <<make_row(field_id, <<"c","o","m","p","a","r","a","t","i","v","e">>, None, None,
                      Some(Strip(Sub(c, m.from, m.to))), None, None,
                      Some(Sub(c, p, m.stop - 1)))>>))

AreaNoteRows(field_id, c) ==
  With(Search(c, LAMBDA p : NoteAt(c, p) # 0), LAMBDA p :
    IF p = 0 THEN <<>>
    ELSE <<make_row(field_id, <<"n","o","t","e">>, None, None,
                    Some(Strip(Sub(c, NoteAt(c, p), Len(c)))), None, None,
                    Some(Sub(c, p, Len(c))))>>)

parse_area(field_id, content) ==
  With(normalize_content(content), LAMBDA c :
    Returned(AreaLoop(field_id, c, 1, extract_rank(content))
             \o AreaComparativeRows(field_id, c)
             \o AreaNoteRows(field_id, c)))

\* <label>\s*:\s*([\d,]+) at position i: [ok, num, stop]
LabelNumAt(s, i, label) ==
  With(Span(s, i + Len(label), SpaceSet), LAMBDA a :
  With(Span(s, a + 1, SpaceSet), LAMBDA b :
  With(Span(s, b, NumCommaSet), LAMBDA d :
  With(StartsAt(s, i, label) /\ CharAt(s, a) = ":" /\ d > b, LAMBDA ok :
    [ok |-> ok, num |-> IF ok THEN Sub(s, b, d - 1) ELSE <<>>, stop |-> d]))))

\* growth rate\s*(-?[\d.]+)% at position i: [ok, num, stop]
GrowthRateAt(s, i) ==
  With(Span(s, i + 11, SpaceSet), LAMBDA a :
  With(IF CharAt(s, a) = "-" THEN a + 1 ELSE a, LAMBDA b :
  With(Span(s, b, NumDotSet), LAMBDA d :
  With(StartsAt(s, i, <<"g","r","o","w","t","h"," ","r","a","t","e">>) /\ d > b /\ CharAt(s, d) = "%", LAMBDA ok :
    [ok |-> ok, num |-> IF ok THEN Sub(s, a, d - 1) ELSE <<>>, stop |-> d + 1]))))

\* the row of a "<label>: <number>" of the modern format, if the label is found
PopulationLabelRows(field_id, c, label, date_est, rank) ==
  With(Search(c, LAMBDA p : LabelNumAt(c, p, label).ok), LAMBDA p :
    IF p = 0 THEN <<>>
    ELSE With(LabelNumAt(c, p, label), LAMBDA m :
           <<make_row(field_id, label, parse_number(m.num), None, None, date_est, rank,
                      Some(Sub(c, p, m.stop - 1)))>>))

\* the legacy format: ([\d,]{5,}), the total
PopulationLegacyRows(field_id, c, date_est, rank) ==
  With(Search(c, LAMBDA p : \A k \in 0..4 : CharAt(c, p + k) \in NumCommaSet), LAMBDA p :
    IF p = 0 THEN <<>>
    ELSE With(Sub(c, p, Span(c, p, NumCommaSet) - 1), LAMBDA num :
           <<make_row(field_id, <<"t","o","t","a","l">>, parse_number(num), None, None, date_est, rank,
                      Some(num))>>))

\* the legacy format: the growth rate; float(m.group(1)) raises on what is no number
PopulationGrowth(field_id, c, total) ==
  With(Search(c, LAMBDA p : GrowthRateAt(c, p).ok), LAMBDA p :
    IF p = 0 THEN Returned(total)
    ELSE With(GrowthRateAt(c, p), LAMBDA m :
           IF ~FloatOK(m.num) THEN Raised
           ELSE Returned(total \o <<make_row(field_id, <<"g","r","o","w","t","h","_","r","a","t","e">>, Some(Float(m.num)),
                                             Some(<<"%">>), None, None, None,
                                             Some(Sub(c, p, m.stop - 1)))>>)))

parse_population(field_id, content) ==
  With(extract_rank(content), LAMBDA rank :
  With(normalize_content(content), LAMBDA c :
  With(extract_date_est(c), LAMBDA date_est :
  With(PopulationLabelRows(field_id, c, <<"t","o","t","a","l">>, date_est, rank), LAMBDA total :
    IF total # <<>>
    THEN Returned(total \o PopulationLabelRows(field_id, c, <<"m","a","l","e">>, None, None)
                        \o PopulationLabelRows(field_id, c, <<"f","e","m","a","l","e">>, None, None))
    ELSE PopulationGrowth(field_id, c, PopulationLegacyRows(field_id, c, date_est, rank))))))

\* \$([\d.,]+)\s*(trillion|billion|million)? at position i, under re.IGNORECASE:
\* [ok, num, mag (the power of ten), stop]
DollarAt(s, i) ==
  With(Span(s, i + 1, NumDotCommaSet), LAMBDA d :
  With(Span(s, d, SpaceSet), LAMBDA a :
  With(IF StartsAtCI(s, a, <<"t","r","i","l","l","i","o","n">>) THEN 12
       ELSE IF StartsAtCI(s, a, <<"b","i","l","l","i","o","n">>) THEN 9
       ELSE IF StartsAtCI(s, a, <<"m","i","l","l","i","o","n">>) THEN 6
       ELSE 0, LAMBDA mag :
  With(CharAt(s, i) = "$" /\ d > i + 1, LAMBDA ok :
    [ok |-> ok, num |-> IF ok THEN Sub(s, i + 1, d - 1) ELSE <<>>, mag |-> mag,
     stop |-> IF mag = 12 THEN a + 8 ELSE IF mag # 0 THEN a + 7 ELSE a]))))

\* \$([\d.,]+)\s*(trillion|billion|million)?\s*(?:\((\d{4})\s*est\.?\))? at position i:
\* [ok, num, mag, year (optional), stop]
DollarYearAt(s, i) ==
  With(DollarAt(s, i), LAMBDA m :
  With(Span(s, m.stop, SpaceSet), LAMBDA c :
  With(YearEstAt(s, c, TRUE), LAMBDA y :
    [ok |-> m.ok, num |-> m.num, mag |-> m.mag,
     year |-> IF y.ok THEN Some(y.year) ELSE None,
     start |-> i, stop |-> IF y.ok THEN y.stop ELSE c])))

\* (-?[\d.]+)%\s*(?:\((\d{4})\s*est\.?\))? at position i: [ok, num, year, start, stop]
PctYearAt(s, i) ==
  With(Span(s, IF CharAt(s, i) = "-" THEN i + 1 ELSE i, NumDotSet), LAMBDA d :
  With(Span(s, d + 1, SpaceSet), LAMBDA c :
  With(YearEstAt(s, c, FALSE), LAMBDA y :
  With(/\ i <= Len(s)
       /\ d > (IF CharAt(s, i) = "-" THEN i + 1 ELSE i)
       /\ CharAt(s, d) = "%", LAMBDA ok :
    [ok |-> ok, num |-> IF ok THEN Sub(s, i, d - 1) ELSE <<>>,
     year |-> IF y.ok THEN Some(y.year) ELSE None,
     start |-> i, stop |-> IF y.ok THEN y.stop ELSE c]))))

\* re.finditer: the matches from position pos on, left to right, none overlapping
RECURSIVE DollarMatches(_, _)
DollarMatches(s, pos) ==
  With(SearchFrom(s, pos, LAMBDA p : DollarYearAt(s, p).ok), LAMBDA p :
    IF p = 0 THEN <<>>
    ELSE With(DollarYearAt(s, p), LAMBDA m : <<m>> \o DollarMatches(s, m.stop)))

RECURSIVE PctMatches(_, _)
PctMatches(s, pos) ==
  With(SearchFrom(s, pos, LAMBDA p : PctYearAt(s, p).ok), LAMBDA p :
    IF p = 0 THEN <<>>
    ELSE With(PctYearAt(s, p), LAMBDA m : <<m>> \o PctMatches(s, m.stop)))

\* a variant that numbers the unannotated occurrences from one
SeriesKey_from_one(prefix, year, i) ==
  IF IsSome(year) THEN prefix \o <<"_">> \o Get(year)
  ELSE IF i = 0 THEN prefix
  ELSE prefix \o <<"_">> \o NatToStr(i + 1)

\* the sub_field of occurrence i (counted from 0) of a series
SeriesKey(prefix, year, i) ==
  IF IsSome(year) THEN prefix \o <<"_">> \o Get(year)
  ELSE IF i = 0 THEN prefix
  ELSE prefix \o <<"_">> \o NatToStr(i)

\* f'{year_est} est.' if year_est else None
SeriesDate(year) == IF IsSome(year) THEN Some(Get(year) \o <<" ","e","s","t",".">>) ELSE None

\* note\s*:\s*(.+?)$ under re.IGNORECASE at position i: the start of group 1, or 0
NoteColonAt(s, i) ==
  With(Span(s, i + 4, SpaceSet), LAMBDA a :
  With(Span(s, a + 1, SpaceSet), LAMBDA b :
    IF ~(StartsAtCI(s, i, <<"n","o","t","e">>) /\ CharAt(s, a) = ":") THEN 0
    ELSE IF b <= Len(s) THEN b
    ELSE IF b > a + 1 THEN Len(s)
    ELSE 0))

\* the trailing note row of the series extractors
NoteRows(field_id, c) ==
  With(Search(c, LAMBDA p : NoteColonAt(c, p) # 0), LAMBDA p :
    IF p = 0 THEN <<>>
    ELSE <<make_row(field_id, <<"n","o","t","e">>, None, None,
                    Some(Strip(Sub(c, NoteColonAt(c, p), Len(c)))), None, None,
                    Some(Sub(c, p, Len(c))))>>)

\* one turn of the loop of parse_multi_year_dollar, for occurrence i (counted from 0)
DollarRow(field_id, c, m, i, rank) ==
  With(RemoveCommas(m.num), LAMBDA val_str :
    IF ~FloatOK(val_str) THEN <<>>
    ELSE <<make_row(field_id, SeriesKey(<<"v","a","l","u","e">>, m.year, i),
                    Some(Scale(Float(val_str), m.mag)), Some(<<"U","S","D">>), None,
                    SeriesDate(m.year), IF i = 0 THEN rank ELSE None,
                    Some(Sub(c, m.start, m.stop - 1)))>>)

RECURSIVE DollarRows(_, _, _, _, _)
DollarRows(field_id, c, ms, k, rank) ==
  IF k > Len(ms) THEN <<>>
  ELSE DollarRow(field_id, c, ms[k], k - 1, rank) \o DollarRows(field_id, c, ms, k + 1, rank)

parse_multi_year_dollar(field_id, content) ==
  With(normalize_content(content), LAMBDA c :
    Returned(DollarRows(field_id, c, DollarMatches(c, 1), 1, extract_rank(content))
             \o NoteRows(field_id, c)))

\* one turn of the loop of parse_multi_year_pct, for occurrence i (counted from 0)
PctRow(field_id, c, m, i, rank) ==
  <<make_row(field_id, SeriesKey(<<"v","a","l","u","e">>, m.year, i), Some(Float(m.num)),
             Some(<<"%">>), None, SeriesDate(m.year), IF i = 0 THEN rank ELSE None,
             Some(Sub(c, m.start, m.stop - 1)))>>

RECURSIVE PctRows(_, _, _, _, _)
PctRows(field_id, c, ms, k, rank) ==
  IF k > Len(ms) THEN <<>>
  ELSE PctRow(field_id, c, ms[k], k - 1, rank) \o PctRows(field_id, c, ms, k + 1, rank)

parse_multi_year_pct(field_id, content) ==
  With(normalize_content(content), LAMBDA c :
  With(PctMatches(c, 1), LAMBDA ms :
    \* float(m.group(1)) raises on the first occurrence that is no number
    IF \E k \in 1..Len(ms) : ~FloatOK(ms[k].num) THEN Raised
    ELSE Returned(PctRows(field_id, c, ms, 1, extract_rank(content)) \o NoteRows(field_id, c))))


-----------------------------------------------------------------------------
(* etl/structured_parsing/parse_field_values.py: the age structure parser *)

\* the character U+2013, which the bracket pattern accepts beside the hyphen
EnDash == "en dash"

\* year followed by an optional s, at position a: the position after it
YearsEnd(s, a) == IF CharAt(s, a + 4) = "s" THEN a + 5 ELSE a + 4

\* (\d+[-–]\d+\s*years?|65\s*years?\s*and\s*over) at position i: the position after
\* group 1, or 0
AgeBracketAt(s, i) ==
  With(Span(s, i, DigitSet), LAMBDA d1 :
  With(Span(s, d1 + 1, DigitSet), LAMBDA d2 :
  With(Span(s, d2, SpaceSet), LAMBDA a :
  With(Span(s, i + 2, SpaceSet), LAMBDA b :
  With(Span(s, YearsEnd(s, b), SpaceSet), LAMBDA c :
  With(Span(s, c + 3, SpaceSet), LAMBDA f :
    IF d1 > i /\ CharAt(s, d1) \in {"-", EnDash} /\ d2 > d1 + 1 /\ StartsAt(s, a, <<"y","e","a","r">>)
    THEN YearsEnd(s, a)
    ELSE IF /\ StartsAt(s, i, <<"6","5">>) /\ StartsAt(s, b, <<"y","e","a","r">>)
            /\ StartsAt(s, c, <<"a","n","d">>) /\ StartsAt(s, f, <<"o","v","e","r">>)
    THEN f + 4
    ELSE 0))))))

\* <bracket>\s*:\s*([\d.]+)% at position i: [ok, bracket, num, stop]
AgeHeadAt(s, i) ==
  With(AgeBracketAt(s, i), LAMBDA g :
  With(Span(s, IF g = 0 THEN i ELSE g, SpaceSet), LAMBDA a :
  With(Span(s, a + 1, SpaceSet), LAMBDA b :
  With(Span(s, b, NumDotSet), LAMBDA d :
  With(g # 0 /\ CharAt(s, a) = ":" /\ d > b /\ CharAt(s, d) = "%", LAMBDA ok :
    [ok |-> ok, bracket |-> IF ok THEN Sub(s, i, g - 1) ELSE <<>>,
     num |-> IF ok THEN Sub(s, b, d - 1) ELSE <<>>, stop |-> d + 1])))))

\* male\s*([\d,]+)\s*[/;]\s*female\s*([\d,]+) at position q, or with loose = FALSE
\* male\s*([\d,]+)[/;]\s*female\s*([\d,]+): [ok, male, female, stop]
MaleFemaleAt(s, q, loose) ==
  With(Span(s, q + 4, SpaceSet), LAMBDA a :
  With(Span(s, a, NumCommaSet), LAMBDA d :
  With(IF loose THEN Span(s, d, SpaceSet) ELSE d, LAMBDA e :
  With(Span(s, e + 1, SpaceSet), LAMBDA f :
  With(Span(s, f + 6, SpaceSet), LAMBDA g :
  With(Span(s, g, NumCommaSet), LAMBDA h :
  With(/\ StartsAt(s, q, <<"m","a","l","e">>) /\ d > a /\ CharAt(s, e) \in {"/", ";"}
       /\ StartsAt(s, f, <<"f","e","m","a","l","e">>) /\ h > g, LAMBDA ok :
    [ok |-> ok, male |-> IF ok THEN Some(Sub(s, a, d - 1)) ELSE None,
     female |-> IF ok THEN Some(Sub(s, g, h - 1)) ELSE None, stop |-> h])))))))

\* \(\d{4}\s*est\.\) at position q: [ok, male, female, stop]
AgeEstAt(s, q) ==
  With(Span(s, q + 5, SpaceSet), LAMBDA a :
    [ok |-> /\ CharAt(s, q) = "("
            /\ \A k \in 1..4 : CharAt(s, q + k) \in DigitSet
            /\ StartsAt(s, a, <<"e","s","t",".",")">>),
     male |-> None, female |-> None, stop |-> a + 5])

\* the optional part is absent: the match ends at e0
NoGroups(e0) == [ok |-> FALSE, male |-> None, female |-> None, stop |-> e0]

\* \s*\(?\s*(?:male...female...|\(\d{4}\s*est\.\)) from position e0: the parenthesis is
\* taken when it is there, and given back when nothing matches behind it
AgeCoreAt(s, e0) ==
  With(Span(s, e0, SpaceSet), LAMBDA p1 :
  With(Span(s, p1 + 1, SpaceSet), LAMBDA p2 :
    IF CharAt(s, p1) = "("
    THEN IF MaleFemaleAt(s, p2, TRUE).ok THEN MaleFemaleAt(s, p2, TRUE)
         ELSE IF AgeEstAt(s, p2).ok THEN AgeEstAt(s, p2)
         ELSE IF AgeEstAt(s, p1).ok THEN AgeEstAt(s, p1)
         ELSE NoGroups(e0)
    ELSE IF MaleFemaleAt(s, p1, TRUE).ok THEN MaleFemaleAt(s, p1, TRUE)
    ELSE NoGroups(e0)))

\* \s*\(?(?:\s*\(male...female...\))? from position r, the end of the core: the groups
\* 5 and 6 and the end of the match
AgeSecondAt(s, r) ==
  With(Span(s, r, SpaceSet), LAMBDA r1 :
  With(IF CharAt(s, r1) = "(" THEN r1 + 1 ELSE r1, LAMBDA r2 :
  With(Span(s, r2, SpaceSet), LAMBDA c0 :
  With(MaleFemaleAt(s, c0 + 1, FALSE), LAMBDA mf :
    IF CharAt(s, c0) = "(" /\ mf.ok /\ CharAt(s, mf.stop) = ")"
    THEN [ok |-> TRUE, male |-> mf.male, female |-> mf.female, stop |-> mf.stop + 1]
    ELSE [ok |-> FALSE, male |-> None, female |-> None, stop |-> r2]))))

\* the whole pattern of the first loop at position i:
\* [ok, bracket, num, male, female, start, stop]
AgeMatchAt(s, i) ==
  With(AgeHeadAt(s, i), LAMBDA h :
  With(AgeCoreAt(s, h.stop), LAMBDA core :
  With(AgeSecondAt(s, core.stop), LAMBDA second :
    [ok |-> h.ok, bracket |-> h.bracket, num |-> h.num,
     male |-> IF ~core.ok THEN None
              ELSE IF IsSome(core.male) THEN core.male ELSE second.male,
     female |-> IF ~core.ok THEN None
                ELSE IF IsSome(core.female) THEN core.female ELSE second.female,
     start |-> i, stop |-> IF core.ok THEN second.stop ELSE h.stop])))

RECURSIVE AgeMatches(_, _)
AgeMatches(s, pos) ==
  With(SearchFrom(s, pos, LAMBDA p : AgeHeadAt(s, p).ok), LAMBDA p :
    IF p = 0 THEN <<>>
    ELSE With(AgeMatchAt(s, p), LAMBDA m : <<m>> \o AgeMatches(s, m.stop)))

\* the matches of the simpler pattern of the second loop
RECURSIVE AgeHeadMatches(_, _)
AgeHeadMatches(s, pos) ==
  With(SearchFrom(s, pos, LAMBDA p : AgeHeadAt(s, p).ok), LAMBDA p :
    IF p = 0 THEN <<>>
    ELSE With(AgeHeadAt(s, p), LAMBDA h :
           <<[ok |-> TRUE, bracket |-> h.bracket, num |-> h.num, male |-> None,
              female |-> None, start |-> p, stop |-> h.stop]>> \o AgeHeadMatches(s, h.stop)))

\* m.group(1).strip().replace('–', '-') + suffix
AgeKey(bracket, suffix) ==
  [k \in 1..Len(bracket) |-> IF bracket[k] = EnDash THEN "-" ELSE bracket[k]] \o suffix

\* the rows of one match
AgeRow(field_id, c, m, date_est) ==
  <<make_row(field_id, AgeKey(m.bracket, <<"_","p","c","t">>), Some(Float(m.num)), Some(<<"%">>), None,
             date_est, None, Some(Sub(c, m.start, m.stop - 1)))>>
  \o (IF IsSome(m.male)
      THEN <<make_row(field_id, AgeKey(m.bracket, <<"_","m","a","l","e">>), parse_number(Get(m.male)),
                      None, None, None, None, Some(Sub(c, m.start, m.stop - 1)))>>
      ELSE <<>>)
  \o (IF IsSome(m.female)
      THEN <<make_row(field_id, AgeKey(m.bracket, <<"_","f","e","m","a","l","e">>), parse_number(Get(m.female)),
                      None, None, None, None, Some(Sub(c, m.start, m.stop - 1)))>>
      ELSE <<>>)

RECURSIVE AgeRows(_, _, _, _, _)
AgeRows(field_id, c, ms, k, date_est) ==
  IF k > Len(ms) THEN <<>>
  ELSE AgeRow(field_id, c, ms[k], date_est) \o AgeRows(field_id, c, ms, k + 1, date_est)

parse_age_structure(field_id, content) ==
  With(normalize_content(content), LAMBDA c :
  With(extract_date_est(c), LAMBDA date_est :
  With(AgeMatches(c, 1), LAMBDA ms :
    \* float(m.group(2)) raises on the first bracket whose percentage is no number
    IF \E k \in 1..Len(ms) : ~FloatOK(ms[k].num) THEN Raised
    ELSE With(AgeRows(field_id, c, ms, 1, date_est), LAMBDA rows :
           IF rows # <<>> THEN Returned(rows)
           ELSE With(AgeHeadMatches(c, 1), LAMBDA hs :
                  IF \E k \in 1..Len(hs) : ~FloatOK(hs[k].num) THEN Raised
                  ELSE Returned(AgeRows(field_id, c, hs, 1, date_est)))))))

-----------------------------------------------------------------------------
(* etl/structured_parsing/parse_field_values.py: the natural gas parser *)

\* (label, sub_field) of the modern format, in the order of the loop
GasLabels == << <<<<"p","r","o","d","u","c","t","i","o","n">>, <<"p","r","o","d","u","c","t","i","o","n">>>>, <<<<"c","o","n","s","u","m","p","t","i","o","n">>, <<"c","o","n","s","u","m","p","t","i","o","n">>>>,
                <<<<"e","x","p","o","r","t","s">>, <<"e","x","p","o","r","t","s">>>>, <<<<"i","m","p","o","r","t","s">>, <<"i","m","p","o","r","t","s">>>>,
                <<<<"p","r","o","v","e","n"," ","r","e","s","e","r","v","e","s">>, <<"p","r","o","v","e","n","_","r","e","s","e","r","v","e","s">>>> >>

\* <label>\s*:\s*([\d.,]+)\s*(trillion|billion|million)?\s*cubic\s*meters at position i,
\* under re.IGNORECASE: [ok, num, mag (the power of ten), stop]
GasLabelAt(s, i, label) ==
  With(Span(s, i + Len(label), SpaceSet), LAMBDA a :
  With(Span(s, a + 1, SpaceSet), LAMBDA b :
  With(Span(s, b, NumDotCommaSet), LAMBDA d :
  With(Span(s, d, SpaceSet), LAMBDA e :
  With(IF StartsAtCI(s, e, <<"t","r","i","l","l","i","o","n">>) THEN 12
       ELSE IF StartsAtCI(s, e, <<"b","i","l","l","i","o","n">>) THEN 9
       ELSE IF StartsAtCI(s, e, <<"m","i","l","l","i","o","n">>) THEN 6
       ELSE 0, LAMBDA mag :
  With(Span(s, IF mag = 12 THEN e + 8 ELSE IF mag # 0 THEN e + 7 ELSE e, SpaceSet), LAMBDA f :
  With(Span(s, f + 5, SpaceSet), LAMBDA g :
  With(/\ StartsAtCI(s, i, label) /\ CharAt(s, a) = ":" /\ d > b
       /\ StartsAtCI(s, f, <<"c","u","b","i","c">>) /\ StartsAtCI(s, g, <<"m","e","t","e","r","s">>), LAMBDA ok :
    [ok |-> ok, num |-> IF ok THEN Sub(s, b, d - 1) ELSE <<>>, mag |-> mag,
     stop |-> g + 6]))))))))

\* the rows of the loop over the labels from the k-th on: [exc, rows]
RECURSIVE GasModernRows(_, _, _)
GasModernRows(field_id, c, k) ==
  IF k > Len(GasLabels) THEN Returned(<<>>)
  ELSE With(Search(c, LAMBDA p : GasLabelAt(c, p, GasLabels[k][1]).ok), LAMBDA p :
       With(GasModernRows(field_id, c, k + 1), LAMBDA rest :
         IF p = 0 THEN rest
         ELSE With(GasLabelAt(c, p, GasLabels[k][1]), LAMBDA m :
                \* float(m.group(1).replace(',', '')) raises on what is no number
                IF ~FloatOK(RemoveCommas(m.num)) \/ rest.exc THEN Raised
                ELSE Returned(<<make_row(field_id, GasLabels[k][2],
                                         Some(Scale(Float(RemoveCommas(m.num)), m.mag)),
                                         Some(<<"c","u"," ","m">>), None, extract_date_est(c), None,
                                         Some(Sub(c, p, m.stop - 1)))>> \o rest.rows))))

\* ([\d,]+)\s*(?:million|billion)?\s*cu\s*m at position i: [ok, num, stop]
GasLegacyAt(s, i) ==
  With(Span(s, i, NumCommaSet), LAMBDA d :
  With(Span(s, d, SpaceSet), LAMBDA e :
  With(Span(s, IF StartsAt(s, e, <<"m","i","l","l","i","o","n">>) \/ StartsAt(s, e, <<"b","i","l","l","i","o","n">>) THEN e + 7 ELSE e,
            SpaceSet), LAMBDA f :
  With(Span(s, f + 2, SpaceSet), LAMBDA g :
  With(d > i /\ StartsAt(s, f, <<"c","u">>) /\ CharAt(s, g) = "m", LAMBDA ok :
    [ok |-> ok, num |-> IF ok THEN Sub(s, i, d - 1) ELSE <<>>, stop |-> g + 1])))))

\* 'billion' in content[:m.end()], else 'million' in content[:m.end()]: the power of ten
GasMagnitude(c, start, stop) ==
  IF Contains(Sub(c, 1, stop - 1), <<"b","i","l","l","i","o","n">>) THEN 9
  ELSE IF Contains(Sub(c, 1, stop - 1), <<"m","i","l","l","i","o","n">>) THEN 6
  ELSE 0

\* the legacy format: a bare number with "cu m": [exc, rows]
GasLegacyRows(field_id, c) ==
  With(Search(c, LAMBDA p : GasLegacyAt(c, p).ok), LAMBDA p :
    IF p = 0 THEN Returned(<<>>)
    ELSE With(GasLegacyAt(c, p), LAMBDA m :
         With(parse_number(m.num), LAMBDA val :
         With(GasMagnitude(c, p, m.stop), LAMBDA mag :
           \* val *= 1e9 raises when parse_number returned None
           IF val = None /\ mag # 0 THEN Raised
           ELSE Returned(<<make_row(field_id, <<"p","r","o","d","u","c","t","i","o","n">>,
                                    IF val = None THEN None ELSE Some(Scale(Get(val), mag)),
                                    Some(<<"c","u"," ","m">>), None, extract_date_est(c), None,
                                    Some(Sub(c, p, m.stop - 1)))>>)))))

parse_natural_gas(field_id, content) ==
  With(normalize_content(content), LAMBDA c :
  With(GasModernRows(field_id, c, 1), LAMBDA modern :
    IF modern.exc THEN Raised
    ELSE IF modern.rows # <<>> THEN modern
    ELSE GasLegacyRows(field_id, c)))
-----------------------------------------------------------------------------
(* etl/structured_parsing/parse_field_values.py: the generic fallback parser *)

\* content.split(' | ') from position pos on
RECURSIVE SplitPipes(_, _)
SplitPipes(s, pos) ==
  With(SearchFrom(s, pos, LAMBDA p : StartsAt(s, p, <<" ","|"," ">>)), LAMBDA p :
    IF p = 0 THEN <<Sub(s, pos, Len(s))>>
    ELSE <<Sub(s, pos, p - 1)>> \o SplitPipes(s, p + 3))

\* [p.strip() for p in content.split(' | ')] if ' | ' in content else [content]
GenericParts(content) ==
  IF Contains(content, <<" ","|"," ">>)
  THEN With(SplitPipes(content, 1), LAMBDA raw : [k \in 1..Len(raw) |-> Strip(raw[k])])
  ELSE <<content>>

LabelSet == AlphaSet \cup SpaceSet \cup {"-", "/", "(", ")"}

\* re.match(r'^([a-zA-Z][a-zA-Z\s\-/()]{1,60}):\s*(.+)', part): [ok, label, value]
LabelValue(part) ==
  With(Span(part, 2, LabelSet), LAMBDA e :
  With(Span(part, e + 1, SpaceSet), LAMBDA a :
  With(IF a <= Len(part) THEN a ELSE IF a > e + 1 THEN Len(part) ELSE 0, LAMBDA from :
  With(/\ CharAt(part, 1) \in AlphaSet
       /\ e - 2 >= 1 /\ e - 2 <= 60
       /\ CharAt(part, e) = ":"
       /\ from # 0, LAMBDA ok :
    [ok |-> ok, label |-> IF ok THEN Sub(part, 1, e - 1) ELSE <<>>,
     value |-> IF ok THEN Sub(part, from, Len(part)) ELSE <<>>]))))

\* re.search(r'^(-?[\d,]+\.?\d*)\s*(.*)', text): [ok, num, rest]
LeadingNumber(text) ==
  With(IF CharAt(text, 1) = "-" THEN 2 ELSE 1, LAMBDA b :
  With(Span(text, b, NumCommaSet), LAMBDA d :
  With(Span(text, IF CharAt(text, d) = "." THEN d + 1 ELSE d, DigitSet), LAMBDA f :
    IF d > b
    THEN [ok |-> TRUE, num |-> Sub(text, 1, f - 1),
          rest |-> Sub(text, Span(text, f, SpaceSet), Len(text))]
    ELSE [ok |-> FALSE, num |-> <<>>, rest |-> <<>>])))

\* re.match(r'^(%|sq\s*km|km|nm|m|years?|kW|kWh|bbl/day|liters|metric tonn?es?|USD|deaths|births)', t):
\* group 1 of the first alternative that matches, or None
UnitOf(t) ==
  With(Span(t, 3, SpaceSet), LAMBDA sq :
  With(IF CharAt(t, 11) = "n" THEN 12 ELSE 11, LAMBDA ton :
    IF StartsAt(t, 1, <<"%">>) THEN Some(<<"%">>)
    ELSE IF StartsAt(t, 1, <<"s","q">>) /\ StartsAt(t, sq, <<"k","m">>) THEN Some(Sub(t, 1, sq + 1))
    ELSE IF StartsAt(t, 1, <<"k","m">>) THEN Some(<<"k","m">>)
    ELSE IF StartsAt(t, 1, <<"n","m">>) THEN Some(<<"n","m">>)
    ELSE IF StartsAt(t, 1, <<"m">>) THEN Some(<<"m">>)
    ELSE IF StartsAt(t, 1, <<"y","e","a","r","s">>) THEN Some(<<"y","e","a","r","s">>)
    ELSE IF StartsAt(t, 1, <<"y","e","a","r">>) THEN Some(<<"y","e","a","r">>)
    ELSE IF StartsAt(t, 1, <<"k","W">>) THEN Some(<<"k","W">>)
    ELSE IF StartsAt(t, 1, <<"k","W","h">>) THEN Some(<<"k","W","h">>)
    ELSE IF StartsAt(t, 1, <<"b","b","l","/","d","a","y">>) THEN Some(<<"b","b","l","/","d","a","y">>)
    ELSE IF StartsAt(t, 1, <<"l","i","t","e","r","s">>) THEN Some(<<"l","i","t","e","r","s">>)
    ELSE IF StartsAt(t, 1, <<"m","e","t","r","i","c"," ","t","o","n">>) /\ CharAt(t, ton) = "e"
      THEN Some(Sub(t, 1, IF CharAt(t, ton + 1) = "s" THEN ton + 1 ELSE ton))
    ELSE IF StartsAt(t, 1, <<"U","S","D">>) THEN Some(<<"U","S","D">>)
    ELSE IF StartsAt(t, 1, <<"d","e","a","t","h","s">>) THEN Some(<<"d","e","a","t","h","s">>)
    ELSE IF StartsAt(t, 1, <<"b","i","r","t","h","s">>) THEN Some(<<"b","i","r","t","h","s">>)
    ELSE None))

\* a labelled part whose value starts with a number nm
LabelledNumber(field_id, part, label, val_text, nm) ==
  Returned(<<make_row(field_id, label, parse_number(nm.num), UnitOf(Strip(nm.rest)), None,
                      extract_date_est(val_text), None, Some(part))>>)

\* a labelled part whose value holds the dollar amount dm
LabelledDollar(field_id, part, label, val_text, dm) ==
  With(RemoveCommas(dm.num), LAMBDA num :
    IF ~FloatOK(num) THEN Raised
    ELSE Returned(<<make_row(field_id, label, Some(Scale(Float(num), dm.mag)), Some(<<"U","S","D">>),
                             None, extract_date_est(val_text), None, Some(part))>>))

\* [\d.]+% at position p
PctAt(s, p) == CharAt(s, p) \in NumDotSet /\ CharAt(s, Span(s, p, NumDotSet)) = "%"

\* a labelled part whose value holds a percentage at position p
LabelledPct(field_id, part, label, val_text, p) ==
  With(Sub(val_text, p, Span(val_text, p, NumDotSet) - 1), LAMBDA num :
    IF ~FloatOK(num) THEN Raised
    ELSE Returned(<<make_row(field_id, label, Some(Float(num)), Some(<<"%">>), None,
                             extract_date_est(val_text), None, Some(part))>>))

\* the rows of one labelled part of label and value m: [exc, rows]
LabelledPart(field_id, part, m) ==
  With(SpacesToUnderscores(LowerStr(Strip(m.label))), LAMBDA label :
  With(Strip(m.value), LAMBDA val_text :
  With(LeadingNumber(val_text), LAMBDA nm :
  With(Search(val_text, LAMBDA p : DollarAt(val_text, p).ok), LAMBDA dp :
  With(Search(val_text, LAMBDA p : PctAt(val_text, p)), LAMBDA pp :
    IF nm.ok THEN LabelledNumber(field_id, part, label, val_text, nm)
    ELSE IF dp # 0 THEN LabelledDollar(field_id, part, label, val_text, DollarAt(val_text, dp))
    ELSE IF pp # 0 THEN LabelledPct(field_id, part, label, val_text, pp)
    ELSE Returned(<<make_row(field_id, label, None, None, Some(val_text), None, None,
                             Some(part))>>))))))

\* the rows of a part without a label, tried only while no row exists
BarePart(field_id, part, date_est, rank) ==
  With(LeadingNumber(Strip(part)), LAMBDA nm :
  With(parse_number(nm.num), LAMBDA num :
    IF nm.ok /\ IsSome(num)
    THEN <<make_row(field_id, <<"v","a","l","u","e">>, num, None, None, date_est, rank, Some(part))>>
    ELSE <<>>))

\* a variant that tries the bare number of every part without a label
GenericPart_every_bare(field_id, part, rows, date_est, rank) ==
  With(LabelValue(part), LAMBDA m :
    IF m.ok
    THEN With(LabelledPart(field_id, part, m), LAMBDA r :
           IF r.exc THEN Raised ELSE Returned(rows \o r.rows))
    ELSE Returned(rows \o BarePart(field_id, part, date_est, rank)))

\* one turn of the loop `for part in parts`, rows being what the loop has so far
GenericPart(field_id, part, rows, date_est, rank) ==
  With(LabelValue(part), LAMBDA m :
    IF m.ok
    THEN With(LabelledPart(field_id, part, m), LAMBDA r :
           IF r.exc THEN Raised ELSE Returned(rows \o r.rows))
    ELSE IF rows = <<>> THEN Returned(BarePart(field_id, part, date_est, rank))
    ELSE Returned(rows))

\* the loop from parts[k] on
RECURSIVE GenericLoop(_, _, _, _, _, _)
GenericLoop(field_id, parts, k, rows, date_est, rank) ==
  IF k > Len(parts) THEN Returned(rows)
  ELSE With(GenericPart(field_id, parts[k], rows, date_est, rank), LAMBDA r :
         IF r.exc THEN Raised
         ELSE GenericLoop(field_id, parts, k + 1, r.rows, date_est, rank))

\* a parse_generic without the whole-content floor
parse_generic_no_floor(field_id, content) ==
  With(normalize_content(content), LAMBDA c :
    IF Strip(c) = <<>> THEN Returned(<<>>)
    ELSE GenericLoop(field_id, GenericParts(c), 1, <<>>, extract_date_est(c),
                     extract_rank(content)))

\* a variant that stores the text of the floor uncut
GenericFloor_uncut(field_id, text, date_est, rank) ==
  <<make_row(field_id, <<"v","a","l","u","e">>, None, None, Some(text), date_est, rank,
             Some(Take(text, MAX_FRAG_LEN)))>>

\* the floor of parse_generic: the whole content as one text row
GenericFloor(field_id, text, date_est, rank) ==
  <<make_row(field_id, <<"v","a","l","u","e">>, None, None, Some(Take(text, MAX_TEXT_LEN)), date_est, rank,
             Some(Take(text, MAX_FRAG_LEN)))>>

parse_generic(field_id, content) ==
  With(extract_rank(content), LAMBDA rank :
  With(normalize_content(content), LAMBDA c :
  With(extract_date_est(c), LAMBDA date_est :
    IF Strip(c) = <<>> THEN Returned(<<>>)
    ELSE With(GenericLoop(field_id, GenericParts(c), 1, <<>>, date_est, rank), LAMBDA r :
           IF r.exc THEN Raised
           ELSE IF r.rows = <<>> THEN Returned(GenericFloor(field_id, Strip(c), date_est, rank))
           ELSE r))))

-----------------------------------------------------------------------------
(* etl/structured_parsing/parse_field_values.py: the parser dispatch table *)

FIELD_PARSERS ==
  {
    <<<<"A","r","e","a">>, "parse_area">>,
    <<<<"P","o","p","u","l","a","t","i","o","n">>, "parse_population">>,
    <<<<"L","i","f","e"," ","e","x","p","e","c","t","a","n","c","y"," ","a","t"," ","b","i","r","t","h">>, "parse_life_exp">>,
    <<<<"A","g","e"," ","s","t","r","u","c","t","u","r","e">>, "parse_age_structure">>,
    <<<<"B","i","r","t","h"," ","r","a","t","e">>, "parse_single_rate">>,
    <<<<"D","e","a","t","h"," ","r","a","t","e">>, "parse_single_rate">>,
    <<<<"I","n","f","a","n","t"," ","m","o","r","t","a","l","i","t","y"," ","r","a","t","e">>, "parse_infant_mortality">>,
    <<<<"T","o","t","a","l"," ","f","e","r","t","i","l","i","t","y"," ","r","a","t","e">>, "parse_single_value">>,
    <<<<"R","e","a","l"," ","G","D","P"," ","(","p","u","r","c","h","a","s","i","n","g"," ","p","o","w","e","r"," ","p","a","r","i","t","y",")">>, "parse_multi_year_dollar">>,
    <<<<"G","D","P"," ","(","p","u","r","c","h","a","s","i","n","g"," ","p","o","w","e","r"," ","p","a","r","i","t","y",")">>, "parse_multi_year_dollar">>,
    <<<<"R","e","a","l"," ","G","D","P"," ","p","e","r"," ","c","a","p","i","t","a">>, "parse_multi_year_dollar">>,
    <<<<"G","D","P"," ","-"," ","p","e","r"," ","c","a","p","i","t","a"," ","(","P","P","P",")">>, "parse_multi_year_dollar">>,
    <<<<"G","D","P"," ","(","o","f","f","i","c","i","a","l"," ","e","x","c","h","a","n","g","e"," ","r","a","t","e",")">>, "parse_multi_year_dollar">>,
    <<<<"M","i","l","i","t","a","r","y"," ","e","x","p","e","n","d","i","t","u","r","e","s">>, "parse_multi_year_pct_gdp">>,
    <<<<"E","x","p","o","r","t","s">>, "parse_exports_imports">>,
    <<<<"I","m","p","o","r","t","s">>, "parse_exports_imports">>,
    <<<<"B","u","d","g","e","t">>, "parse_budget">>,
    <<<<"L","a","n","d"," ","u","s","e">>, "parse_land_use">>,
    <<<<"E","l","e","c","t","r","i","c","i","t","y">>, "parse_electricity">>,
    <<<<"U","n","e","m","p","l","o","y","m","e","n","t"," ","r","a","t","e">>, "parse_multi_year_pct">>,
    <<<<"I","n","f","l","a","t","i","o","n"," ","r","a","t","e"," ","(","c","o","n","s","u","m","e","r"," ","p","r","i","c","e","s",")">>, "parse_multi_year_pct">>,
    <<<<"R","e","a","l"," ","G","D","P"," ","g","r","o","w","t","h"," ","r","a","t","e">>, "parse_multi_year_pct">>,
    <<<<"G","D","P"," ","-"," ","r","e","a","l"," ","g","r","o","w","t","h"," ","r","a","t","e">>, "parse_multi_year_pct">>,
    <<<<"P","o","p","u","l","a","t","i","o","n"," ","g","r","o","w","t","h"," ","r","a","t","e">>, "parse_multi_year_pct">>,
    <<<<"D","e","p","e","n","d","e","n","c","y"," ","r","a","t","i","o","s">>, "parse_dependency_ratios">>,
    <<<<"U","r","b","a","n","i","z","a","t","i","o","n">>, "parse_urbanization">>,
    <<<<"E","l","e","v","a","t","i","o","n">>, "parse_elevation">>,
    <<<<"G","e","o","g","r","a","p","h","i","c"," ","c","o","o","r","d","i","n","a","t","e","s">>, "parse_gps">>,
    <<<<"C","o","a","s","t","l","i","n","e">>, "parse_single_with_units">>,
    <<<<"M","e","d","i","a","n"," ","a","g","e">>, "parse_median_age">>,
    <<<<"C","u","r","r","e","n","t"," ","a","c","c","o","u","n","t"," ","b","a","l","a","n","c","e">>, "parse_multi_year_dollar">>,
    <<<<"R","e","s","e","r","v","e","s"," ","o","f"," ","f","o","r","e","i","g","n"," ","e","x","c","h","a","n","g","e"," ","a","n","d"," ","g","o","l","d">>, "parse_multi_year_dollar">>,
    <<<<"P","u","b","l","i","c"," ","d","e","b","t">>, "parse_multi_year_pct">>,
    <<<<"I","n","d","u","s","t","r","i","a","l"," ","p","r","o","d","u","c","t","i","o","n"," ","g","r","o","w","t","h"," ","r","a","t","e">>, "parse_multi_year_pct">>,
    <<<<"S","e","x"," ","r","a","t","i","o">>, "parse_sex_ratio">>,
    <<<<"L","i","t","e","r","a","c","y">>, "parse_literacy">>,
    <<<<"M","a","r","i","t","i","m","e"," ","c","l","a","i","m","s">>, "parse_maritime_claims">>,
    <<<<"N","a","t","u","r","a","l"," ","g","a","s">>, "parse_natural_gas">>,
    <<<<"I","n","t","e","r","n","e","t"," ","u","s","e","r","s">>, "parse_internet_users">>,
    <<<<"T","e","l","e","p","h","o","n","e","s"," ","-"," ","f","i","x","e","d"," ","l","i","n","e","s">>, "parse_telephones">>,
    <<<<"T","e","l","e","p","h","o","n","e","s"," ","-"," ","m","o","b","i","l","e"," ","c","e","l","l","u","l","a","r">>, "parse_telephones">>,
    <<<<"D","e","b","t"," ","-"," ","e","x","t","e","r","n","a","l">>, "parse_multi_year_dollar">>,
    <<<<"G","D","P"," ","-"," ","c","o","m","p","o","s","i","t","i","o","n",","," ","b","y"," ","s","e","c","t","o","r"," ","o","f"," ","o","r","i","g","i","n">>, "parse_gdp_composition">>,
    <<<<"H","o","u","s","e","h","o","l","d"," ","i","n","c","o","m","e"," ","o","r"," ","c","o","n","s","u","m","p","t","i","o","n"," ","b","y"," ","p","e","r","c","e","n","t","a","g","e"," ","s","h","a","r","e">>, "parse_household_income">>,
    <<<<"S","c","h","o","o","l"," ","l","i","f","e"," ","e","x","p","e","c","t","a","n","c","y"," ","(","p","r","i","m","a","r","y"," ","t","o"," ","t","e","r","t","i","a","r","y"," ","e","d","u","c","a","t","i","o","n",")">>, "parse_school_life_expectancy">>,
    <<<<"Y","o","u","t","h"," ","u","n","e","m","p","l","o","y","m","e","n","t"," ","r","a","t","e"," ","(","a","g","e","s"," ","1","5","-","2","4",")">>, "parse_youth_unemployment">>,
    <<<<"U","n","e","m","p","l","o","y","m","e","n","t",","," ","y","o","u","t","h"," ","a","g","e","s"," ","1","5","-","2","4">>, "parse_youth_unemployment">>,
    <<<<"C","a","r","b","o","n"," ","d","i","o","x","i","d","e"," ","e","m","i","s","s","i","o","n","s">>, "parse_co2_emissions">>,
    <<<<"C","a","r","b","o","n"," ","d","i","o","x","i","d","e"," ","e","m","i","s","s","i","o","n","s"," ","f","r","o","m"," ","c","o","n","s","u","m","p","t","i","o","n"," ","o","f"," ","e","n","e","r","g","y">>, "parse_co2_emissions">>,
    <<<<"T","o","t","a","l"," ","w","a","t","e","r"," ","w","i","t","h","d","r","a","w","a","l">>, "parse_water_withdrawal">>,
    <<<<"F","r","e","s","h","w","a","t","e","r"," ","w","i","t","h","d","r","a","w","a","l"," ","(","d","o","m","e","s","t","i","c","/","i","n","d","u","s","t","r","i","a","l","/","a","g","r","i","c","u","l","t","u","r","a","l",")">>, "parse_water_withdrawal">>,
    <<<<"B","r","o","a","d","b","a","n","d"," ","-"," ","f","i","x","e","d"," ","s","u","b","s","c","r","i","p","t","i","o","n","s">>, "parse_broadband">>,
    <<<<"D","r","i","n","k","i","n","g"," ","w","a","t","e","r"," ","s","o","u","r","c","e">>, "parse_water_sanitation">>,
    <<<<"S","a","n","i","t","a","t","i","o","n"," ","f","a","c","i","l","i","t","y"," ","a","c","c","e","s","s">>, "parse_water_sanitation">>,
    <<<<"W","a","s","t","e"," ","a","n","d"," ","r","e","c","y","c","l","i","n","g">>, "parse_waste_recycling">>,
    <<<<"R","e","v","e","n","u","e"," ","f","r","o","m"," ","f","o","r","e","s","t"," ","r","e","s","o","u","r","c","e","s">>, "parse_forest_revenue">>
  }

ParserKeys == {p[1] : p \in FIELD_PARSERS}

\* the call parser(field_id, content).  The corpus of this model names the fields of
\* the extractors translated above; the other entries of the table are dispatched to
\* but not run.
CallParser(parser, field_id, content) ==
  CASE parser = "parse_area" -> parse_area(field_id, content)
    [] parser = "parse_population" -> parse_population(field_id, content)
    [] parser = "parse_multi_year_dollar" -> parse_multi_year_dollar(field_id, content)
    [] parser = "parse_multi_year_pct" -> parse_multi_year_pct(field_id, content)
    [] parser = "parse_age_structure" -> parse_age_structure(field_id, content)
    [] parser = "parse_natural_gas" -> parse_natural_gas(field_id, content)
    [] parser = "parse_generic" -> parse_generic(field_id, content)

-----------------------------------------------------------------------------
(* One call of apply_rules on arguments drawn from the names and usage     *)
(* statistics below (specification SpecCanon).                             *)

\* field names: every consolidation key, and names that meet each rule and several at once
CanonNames ==
  ConsolidationKeys \cup
  { <<"E","c","o","n","o","m","y","-","o","v","e","r","v","i","e","w">>, <<"E","c","o","n","o","m","y","-","-","o","v","e","r","v","i","e","w">>, <<"E","c","o","n","o","m","y"," ","-"," ","o","v","e","r","v","i","e","w">>, <<"E","c","o","n","o","m","i","c"," ","o","v","e","r","v","i","e","w">>,
    <<"O","i","l","-","p","r","o","d","u","c","t","i","o","n">>, <<"O","i","l","-","-","p","r","o","d","u","c","t","i","o","n">>, <<"O","i","l"," ","-","p","r","o","d","u","c","t","i","o","n">>, <<"L","o","n","g","-","f","o","r","m"," ","n","a","m","e">>,
    <<"T","o","t","a","l"," ","a","r","e","a">>, <<"A","g","r","i","c","u","l","t","u","r","e">>, <<"P","o","p","u","l","a","t","i","o","n">>, <<"B","a","c","k","g","r","o","u","n","d">>,
    <<"N","a","t","i","o","n","a","l"," ","A","s","s","e","m","b","l","y">>, <<"P","a","r","l","i","a","m","e","n","t","-","u","p","p","e","r"," ","h","o","u","s","e">>, <<"C","o","u","n","c","i","l"," ","o","f"," ","S","t","a","t","e","-","m","e","m","b","e","r","s">>,
    <<"S","e","r","b","i","a">>, <<"A","p","p","e","n","d","i","x","e","s">>, <<"R","e","p","u","b","l","i","c">>, <<"C","o","u","r","t">>,
    <<"U","S">>, <<"U","K">>, <<"N","A">>, <<"a","b">>, <<"e","s","t",".">>, <<"t","o","t","a","l">>, <<"r","e","m","a","r","k","s"," ","o","n"," ","d","a","t","a">>, <<"F","o","o","-">>, <<"-","F","o","o">>, <<"a","-","-">>,
    <<"B","u","d","g","e","t"," ","s","u","r","p","l","u","s"," ","(","+",")"," ","o","r"," ","d","e","f","i","c","i","t"," ","(","-",")">>, <<"U","n","e","m","p","l","o","y","m","e","n","t",","," ","y","o","u","t","h"," ","a","g","e","s"," ","1","5","-","2","4">>,
    <<"A","i","r","p","o","r","t","s",","," ","h","a","r","b","o","r","s",","," ","a","n","d"," ","o","t","h","e","r"," ","f","a","c","i","l","i","t","i","e","s"," ","l","i","s","t","e","d"," ","b","y"," ","p","r","o","v","i","n","c","e">>,
    <<"P","o","p","u","l","a","r"," ","B","l","o","c">>, <<"T","r","a","d","e"," ","i","n","c","l","u","d","e","s"," ","s","e","r","v","i","c","e","s">>, <<"A","r","e","a"," ","(","l","a","n","d",")">>, <<"U","S","-","-","a","s","s","i","s","t","a","n","c","e">>,
    <<"A","r","t","i","c","l","e"," ","1">>, <<"w","i","t","h"," ","r","u","n","w","a","y","s">>, <<"A","1">>, <<"U","2">> }

\* usage statistics on both sides of every threshold of the heuristics
UseCounts == {3, 5, 6, 10, 11, 101}
FirstYears == {1998, 1999}
LastYears == {2001, 2002}

\* names that may be present in the two most recent years
ModernPool == { <<"T","o","t","a","l"," ","a","r","e","a">>, <<"L","o","n","g"," ","-"," ","f","o","r","m"," ","n","a","m","e">>, <<"O","i","l"," ","-"," ","p","r","o","d","u","c","t","i","o","n">>, <<"E","c","o","n","o","m","y"," ","-"," ","o","v","e","r","v","i","e","w">>, <<"U","S">> }

NoArgs == [original |-> <<>>, first_year |-> 0, last_year |-> 0, use_count |-> 0,
           modern_names |-> {}]

InitCanon ==
  /\ args \in [original : CanonNames, first_year : FirstYears, last_year : LastYears,
               use_count : UseCounts, modern_names : SUBSET ModernPool]
  /\ ret = None
  /\ fields = <<>> /\ mappings = {} /\ store = <<>> /\ pc = "idle" /\ run = 0
  /\ canonical_map = {} /\ idx = 0 /\ batch = <<>> /\ calls = <<>> /\ produced = <<>>
  /\ firstOut = None /\ log = <<>>

\* the call apply_rules(original, first_year, last_year, use_count, modern_names)
ApplyRules ==
  /\ pc = "idle"
  /\ ret = None
  /\ ret' = Some(apply_rules(args.original, args.first_year, args.last_year,
                             args.use_count, args.modern_names))
  /\ UNCHANGED <<fields, mappings, store, pc, run, canonical_map, idx, batch, calls,
                 produced, firstOut, args, log>>

NextCanon == ApplyRules

SpecCanon == InitCanon /\ [][NextCanon]_vars


(* One call of apply_rules on every name of the rename table (specification *)
(* SpecIdem), for what the Canonicalizer does with its own results.         *)

\* a modern vocabulary that may hold the reformatted form of a canonical name
IdemPool == { <<"E","c","o","n","o","m","y"," ","-"," ","o","v","e","r","v","i","e","w">>, <<"O","i","l"," ","-"," ","p","r","o","d","u","c","t","i","o","n">>, <<"U","S">>,
              <<"Y","o","u","t","h"," ","u","n","e","m","p","l","o","y","m","e","n","t"," ","r","a","t","e"," ","(","a","g","e","s"," ","1","5"," ","-"," ","2","4",")">> }

\* usage statistics on both sides of the thresholds of is_gov_body
IdemStats == [first_year : {1999}, last_year : LastYears, use_count : {3, 101}]

InitIdem ==
  /\ args \in {[original |-> n, first_year |-> s.first_year, last_year |-> s.last_year,
                use_count |-> s.use_count, modern_names |-> v] :
                 n \in CanonNames \cup RenameKeys, s \in IdemStats, v \in SUBSET IdemPool}
  /\ ret = None
  /\ fields = <<>> /\ mappings = {} /\ store = <<>> /\ pc = "idle" /\ run = 0
  /\ canonical_map = {} /\ idx = 0 /\ batch = <<>> /\ calls = <<>> /\ produced = <<>>
  /\ firstOut = None /\ log = <<>>

SpecIdem == InitIdem /\ [][NextCanon]_vars
-----------------------------------------------------------------------------
(* etl/build_field_mappings.py: build_mappings, and its table FieldNameMappings *)

FieldNamesOf(fs) == {fs[i].field_name : i \in DOMAIN fs}
YearsOf(fs, name) == {fs[i].year : i \in {j \in DOMAIN fs : fs[j].field_name = name}}
UseCountOf(fs, name) == Cardinality({j \in DOMAIN fs : fs[j].field_name = name})

\* the field names of the two most recent editions
ModernNames(fs) == {fs[i].field_name : i \in {j \in DOMAIN fs : fs[j].year \in {2024, 2025}}}

\* a variant that groups by field name and edition: one row per name and year
build_mappings_by_year(fs) ==
  {apply_rules(fs[i].field_name, fs[i].year, fs[i].year,
               Cardinality({j \in DOMAIN fs : fs[j].field_name = fs[i].field_name
                                               /\ fs[j].year = fs[i].year}),
               ModernNames(fs)) : i \in DOMAIN fs}

build_mappings(fs) ==
  {apply_rules(name, MinOf(YearsOf(fs, name)), MaxOf(YearsOf(fs, name)),
               UseCountOf(fs, name), ModernNames(fs)) : name \in FieldNamesOf(fs)}

-----------------------------------------------------------------------------
(* etl/structured_parsing/parse_field_values.py: main *)

\* TRUNCATE TABLE FieldValues, and a variant that leaves the table as it is
TruncateTable_keep(table) == table

\* a variant that deletes only the rows of fields that exist no more
TruncateTable_orphans(table) == SelectSeq(table, LAMBDA r : r.field_id < 99)

TruncateTable(table) == <<>>

\* a variant that loads the flagged names too, with no canonical name
LoadCanonicalMap_noise_blank(table) ==
  {<<m.original, IF m.is_noise THEN <<>> ELSE m.canonical>> : m \in table}

\* SELECT OriginalName, CanonicalName FROM FieldNameMappings WHERE IsNoise = 0
LoadCanonicalMap(table) == {<<m.original, m.canonical>> : m \in {x \in table : ~x.is_noise}}

\* canonical_map.get(field_name, field_name)
Canonical(cmap, field_name) ==
  IF \E p \in cmap : p[1] = field_name THEN Lookup(cmap, field_name) ELSE field_name

\* a variant whose registry lacks the modern name of the GDP series
ParserFor_unregistered_target(canonical) ==
  IF canonical \in ParserKeys \ {<<"R","e","a","l"," ","G","D","P"," ","(","p","u","r","c","h","a","s","i","n","g"," ","p","o","w","e","r"," ","p","a","r","i","t","y",")">>}
  THEN Lookup(FIELD_PARSERS, canonical) ELSE "parse_generic"

\* FIELD_PARSERS.get(canonical, parse_generic)
ParserFor(canonical) ==
  IF canonical \in ParserKeys THEN Lookup(FIELD_PARSERS, canonical) ELSE "parse_generic"

\* the years loop: the years ascending, the records of each year in table order.  The
\* SELECT of a year has no ORDER BY; the order the database returns is taken to be the
\* order of the table, which Init draws freely and no run changes.
RECURSIVE ReadOrder(_, _)
ReadOrder(fs, years) ==
  IF years = {} THEN <<>>
  ELSE LET y == MinOf(years)
       IN  SelectSeq(fs, LAMBDA f : f.year = y) \o ReadOrder(fs, years \ {y})

\* the row main stores for a field whose parser raised
FallbackRow(field_id, content) ==
  make_row(field_id, <<"v","a","l","u","e">>, None, None, Some(Take(content, MAX_TEXT_LEN)), None, None,
           Some(Take(content, MAX_FRAG_LEN)))

\* a variant without the try/except: the exception leaves main
TryParse_uncaught(parser, field_id, content) ==
  With(CallParser(parser, field_id, content), LAMBDA r :
    [aborted |-> r.exc, raised |-> r.exc, returned |-> Len(r.rows), rows |-> r.rows])

\* a variant that hands a field to parse_generic when its parser returns nothing
TryParse_refallback(parser, field_id, content) ==
  With(CallParser(parser, field_id, content), LAMBDA r :
  With(parse_generic(field_id, content), LAMBDA g :
    IF r.exc \/ (r.rows = <<>> /\ g.exc)
    THEN [aborted |-> FALSE, raised |-> TRUE, returned |-> 0,
          rows |-> <<FallbackRow(field_id, content)>>]
    ELSE [aborted |-> FALSE, raised |-> FALSE, returned |-> Len(r.rows),
          rows |-> IF r.rows = <<>> THEN g.rows ELSE r.rows]))

\* the try/except around parser(field_id, content): what main goes on with.  raised and
\* returned record how the call ended; aborted: the exception left main
TryParse(parser, field_id, content) ==
  With(CallParser(parser, field_id, content), LAMBDA r :
    IF r.exc
    THEN [aborted |-> FALSE, raised |-> TRUE, returned |-> 0,
          rows |-> <<FallbackRow(field_id, content)>>]
    ELSE [aborted |-> FALSE, raised |-> FALSE, returned |-> Len(r.rows), rows |-> r.rows])

\* a variant in which a row is not appended while the pending batch holds a row of the
\* same sub-field that an earlier field produced
RECURSIVE AppendRows_skip_repeated(_, _, _)
AppendRows_skip_repeated(table, pending, rows) ==
  IF rows = <<>> THEN [store |-> table, batch |-> pending]
  ELSE IF \E k \in DOMAIN pending : /\ pending[k].sub_field = Head(rows).sub_field
                                     /\ pending[k].field_id # Head(rows).field_id
  THEN AppendRows_skip_repeated(table, pending, Tail(rows))
  ELSE LET b == Append(pending, Head(rows))
       IN  IF Len(b) >= BATCH_SIZE
           THEN AppendRows_skip_repeated(table \o b, <<>>, Tail(rows))
           ELSE AppendRows_skip_repeated(table, b, Tail(rows))

\* a variant that inserts the batch only when it has grown beyond BATCH_SIZE
RECURSIVE AppendRows_late_flush(_, _, _)
AppendRows_late_flush(table, pending, rows) ==
  IF rows = <<>> THEN [store |-> table, batch |-> pending]
  ELSE LET b == Append(pending, Head(rows))
       IN  IF Len(b) > BATCH_SIZE
           THEN AppendRows_late_flush(table \o b, <<>>, Tail(rows))
           ELSE AppendRows_late_flush(table, b, Tail(rows))

\* for row in value_rows: batch.append(row); a full batch is inserted and emptied
RECURSIVE AppendRows(_, _, _)
AppendRows(table, pending, rows) ==
  IF rows = <<>> THEN [store |-> table, batch |-> pending]
  ELSE LET b == Append(pending, Head(rows))
       IN  IF Len(b) >= BATCH_SIZE
           THEN AppendRows(table \o b, <<>>, Tail(rows))
           ELSE AppendRows(table, b, Tail(rows))

-----------------------------------------------------------------------------
(* The pipeline: the Canonicalizer, then main, run after run on the same input *)

MaxFields == 2
MaxRuns == 2
MaxPieces == 2

\* build_field_mappings.py --apply: FieldNameMappings is dropped and rebuilt
Canonicalize ==
  /\ pc = "canonicalize"
  /\ mappings' = build_mappings(fields)
  /\ pc' = "truncate"
  /\ UNCHANGED <<fields, store, run, canonical_map, idx, batch, calls, produced, firstOut,
                 args, ret, log>>

\* main: TRUNCATE TABLE FieldValues; commit
Truncate ==
  /\ pc = "truncate"
  /\ store' = TruncateTable(store)
  /\ pc' = "load"
  /\ log' = Append(log, [line |-> "Cleared existing FieldValues data."])
  /\ UNCHANGED <<fields, mappings, run, canonical_map, idx, batch, calls, produced, firstOut,
                 args, ret>>

\* main: build canonical_map; batch = []
LoadMappings ==
  /\ pc = "load"
  /\ canonical_map' = LoadCanonicalMap(mappings)
  /\ idx' = 0
  /\ batch' = <<>>
  /\ pc' = "fields"
  /\ log' = log \o <<[line |-> "Loaded field name mappings.",
                      mappings |-> Cardinality(canonical_map')],
                     [line |-> "Processing years",
                      years |-> Cardinality({fields[i].year : i \in DOMAIN fields})]>>
  /\ UNCHANGED <<fields, mappings, store, run, calls, produced, firstOut, args, ret>>

\* print(f"  [{year}] {year_fields} fields -> {year_values} values ..."): the line main
\* writes when the k-th record of the read order was the last of its year, rows being
\* what the run has produced so far (the elapsed time of the line is left out)
YearLine(k, rows) ==
  With(ReadOrder(fields, {fields[i].year : i \in DOMAIN fields}), LAMBDA order :
    IF k < Len(order) /\ order[k + 1].year = order[k].year THEN <<>>
    ELSE <<[line |-> "year", year |-> order[k].year,
            fields |-> Cardinality({i \in DOMAIN fields : /\ fields[i].year = order[k].year
                                                          /\ fields[i].content # <<>>}),
            values |-> Cardinality({j \in DOMAIN rows :
                          \E i \in DOMAIN fields : /\ fields[i].field_id = rows[j].field_id
                                                    /\ fields[i].year = order[k].year})]>>)

\* the call of a field: what was dispatched to, and how it ended
Call(f, canonical, parser, r) ==
  [field_id |-> f.field_id, canonical |-> canonical, parser |-> parser,
   raised |-> r.raised, returned |-> r.returned]

\* main: one turn of `for field_id, field_name, content in field_rows`
ProcessField ==
  /\ pc = "fields"
  /\ idx < Len(fields)
  /\ \E f \in {ReadOrder(fields, {fields[i].year : i \in DOMAIN fields})[idx + 1]} :
       IF f.content = <<>>
       THEN /\ idx' = idx + 1
            /\ log' = log \o YearLine(idx + 1, produced)
            /\ UNCHANGED <<store, batch, calls, produced, pc>>
       ELSE \E canonical \in {Canonical(canonical_map, f.field_name)} :
            \E r \in {TryParse(ParserFor(canonical), f.field_id, f.content)} :
              /\ calls' = Append(calls, Call(f, canonical, ParserFor(canonical), r))
              /\ IF r.aborted
                 THEN /\ pc' = "aborted"
                      /\ UNCHANGED <<store, batch, produced, idx, log>>
                 ELSE /\ \E w \in {AppendRows(store, batch, r.rows)} :
                           store' = w.store /\ batch' = w.batch
                      /\ produced' = produced \o r.rows
                      /\ idx' = idx + 1
                      /\ log' = log \o YearLine(idx + 1, produced \o r.rows)
                      /\ pc' = pc
  /\ UNCHANGED <<fields, mappings, run, canonical_map, firstOut, args, ret>>

\* main: flush the remaining batch
FinalFlush ==
  /\ pc = "fields"
  /\ idx = Len(fields)
  /\ store' = IF batch # <<>> THEN store \o batch ELSE store
  /\ batch' = IF batch # <<>> THEN <<>> ELSE batch
  /\ pc' = "done"
  /\ firstOut' = IF run = 1 THEN Some(store') ELSE firstOut
  /\ log' = Append(log, [line |-> "COMPLETE",
                          fields |-> Cardinality({i \in DOMAIN fields : fields[i].content # <<>>}),
                          values |-> Len(produced)])
  /\ UNCHANGED <<fields, mappings, run, canonical_map, idx, calls, produced, args, ret>>

\* the pipeline is run again on the unchanged input
NextRun ==
  /\ pc = "done"
  /\ run < MaxRuns
  /\ run' = run + 1
  /\ pc' = "canonicalize"
  /\ calls' = <<>>
  /\ produced' = <<>>
  /\ log' = <<>>
  /\ UNCHANGED <<fields, mappings, store, canonical_map, idx, batch, firstOut, args, ret>>

Next == Canonicalize \/ Truncate \/ LoadMappings \/ ProcessField \/ FinalFlush \/ NextRun

\* Input records (name, content, edition): one of each shape the extractors meet
FieldSamples ==
  { <<<<"P","o","p","u","l","a","t","i","o","n">>, <<"t","o","t","a","l",":"," ","5"," ","m","a","l","e",":"," ","2"," ","f","e","m","a","l","e",":"," ","3">>, 2025>>,
    <<<<"P","o","p","u","l","a","t","i","o","n">>, <<"u","n","k","n","o","w","n">>, 1999>>,
    <<<<"P","u","b","l","i","c"," ","d","e","b","t">>, <<"1",".","2",".","3","%"," ","o","f"," ","G","D","P"," ","(","2","0","2","0"," ","e","s","t",".",")">>, 2025>>,
    <<<<"B","a","c","k","g","r","o","u","n","d">>, <<"a","n"," ","i","s","l","a","n","d"," ","o","f"," ","t","h","e"," ","P","a","c","i","f","i","c">>, 1999>>,
    <<<<"B","a","c","k","g","r","o","u","n","d">>, <<>>, 2025>>,
    <<<<"B","a","c","k","g","r","o","u","n","d">>, <<"p","r","o","s","e">>, 2010>>,
    <<<<"T","o","t","a","l"," ","a","r","e","a">>, <<"t","o","t","a","l"," ","a","r","e","a",":"," ","5"," ","s","q"," ","k","m">>, 1999>>,
    <<<<"G","D","P"," ","(","p","u","r","c","h","a","s","i","n","g"," ","p","o","w","e","r"," ","p","a","r","i","t","y",")">>, <<"$","1"," ","b","i","l","l","i","o","n"," ","(","2","0","2","0"," ","e","s","t",".",")">>, 2025>>,
    <<<<"U","S">>, <<"n","o","t","e",":"," ","x"," ","|"," ","c","a","p","i","t","a","l",":"," ","y">>, 1999>> }

\* the records of a corpus of n fields; FieldID is the identity column of the table
Corpora(n) ==
  {[i \in 1..n |-> [field_id |-> i, field_name |-> c[i][1], content |-> c[i][2],
                    year |-> c[i][3]]] : c \in [1..n -> FieldSamples]}

\* rows an earlier run left in FieldValues: of a field and of a rule that exist no more
StaleRow ==
  make_row(99, <<"o","b","s","o","l","e","t","e">>, Some([m |-> 1, e |-> 0]), None, None, None, None, None)

Init ==
  /\ fields \in UNION {Corpora(n) : n \in 1..MaxFields}
  /\ store \in {<<>>, <<StaleRow>>}
  /\ mappings = {}
  /\ pc = "canonicalize"
  /\ run = 1
  /\ canonical_map = {} /\ idx = 0 /\ batch = <<>> /\ calls = <<>> /\ produced = <<>>
  /\ firstOut = None
  /\ args = NoArgs /\ ret = None /\ log = <<>>

Spec == Init /\ [][Next]_vars

\* One record: its content is any text of up to MaxPieces pieces of the kind its field holds
RecordKinds ==
  { <<{<<"A","r","e","a">>, <<"T","o","t","a","l"," ","a","r","e","a">>},
      {<<"t","o","t","a","l",":"," ","5"," ","s","q"," ","k","m"," ">>, <<"t","o","t","a","l"," ","a","r","e","a",":"," ",","," ","s","q"," ","k","m"," ">>, <<"l","a","n","d",":"," ","7"," ","s","q"," ","k","m"," ">>, <<"n","o","t","e",":"," ","x"," ">>,
       <<"c","o","u","n","t","r","y"," ","c","o","m","p","a","r","i","s","o","n"," ","t","o"," ","t","h","e"," ","w","o","r","l","d",":"," ","4"," ">>}>>,
    <<{<<"P","o","p","u","l","a","t","i","o","n">>},
      {<<"t","o","t","a","l",":"," ","5"," ">>, <<"m","a","l","e",":"," ","2"," ">>, <<"f","e","m","a","l","e",":"," ","3"," ">>, <<"1","2",",","3","4","5"," ">>, <<"g","r","o","w","t","h"," ","r","a","t","e"," ",".",".","%"," ">>,
       <<"(","2","0","2","0"," ","e","s","t",".",")"," ">>}>>,
    <<{<<"G","D","P"," ","(","p","u","r","c","h","a","s","i","n","g"," ","p","o","w","e","r"," ","p","a","r","i","t","y",")">>},
      {<<"$","1"," ","b","i","l","l","i","o","n"," ","(","2","0","2","0"," ","e","s","t",".",")"," ">>, <<"$","2"," ">>, <<"$","1",".","2",".","3"," ">>, <<"n","o","t","e",":"," ","x"," ">>,
       <<"c","o","u","n","t","r","y"," ","c","o","m","p","a","r","i","s","o","n"," ","t","o"," ","t","h","e"," ","w","o","r","l","d",":"," ","4"," ">>, <<"$","1",".","2",".","3"," ","$","2"," ">>,
       <<"$","1",".","2"," ","b","i","l","l","i","o","n"," ","(","2","0","2","1"," ","e","s","t",".",")"," ">>, <<"$","2",".","5"," ","t","r","i","l","l","i","o","n"," ">>, <<"$","5"," ","t","h","o","u","s","a","n","d"," ">>}>>,
    <<{<<"A","g","e"," ","s","t","r","u","c","t","u","r","e">>},
      {<<"0","-","1","4"," ","y","e","a","r","s",":"," ","1","8","%"," ">>, <<"(","m","a","l","e"," ","1","/","f","e","m","a","l","e"," ","2",")"," ">>, <<"6","5"," ","y","e","a","r","s"," ","a","n","d"," ","o","v","e","r",":"," ","5","%"," ">>,
       <<"(","2","0","2","0"," ","e","s","t",".",")"," ">>, <<"1">> \o <<EnDash>> \o <<"2"," ","y","e","a","r",":"," ","6","%"," ">>, <<"1","-","2"," ","y","e","a","r","s",":"," ",".",".","%"," ">>}>>,
    <<{<<"N","a","t","u","r","a","l"," ","g","a","s">>},
      {<<"5"," ","c","u"," ","m"," ">>, <<"7"," ","m","i","l","l","i","o","n"," ","c","u"," ","m"," ">>, <<"1"," ","b","i","l","l","i","o","n"," ","b","b","l"," ">>, <<"p","r","o","d","u","c","t","i","o","n",":"," ","2"," ","c","u","b","i","c"," ","m","e","t","e","r","s"," ">>,
       <<","," ","c","u"," ","m"," ">>, <<"(","2","0","2","0"," ","e","s","t",".",")"," ">>}>>,
    <<{<<"P","u","b","l","i","c"," ","d","e","b","t">>},
      {<<"1",".","5","%"," ","(","2","0","2","1"," ","e","s","t",".",")"," ">>, <<"-","2","%"," ">>, <<"1",".","2",".","3","%"," ">>, <<"o","f"," ","G","D","P"," ">>, <<"n","o","t","e",":"," ","x"," ">>}>>,
    <<{<<"U","S">>},
      {<<"G","D","P",":"," ">>, <<"$","2"," ">>, <<"p","r","o","s","e"," ">>, <<" ","|"," ">>}>>,
    <<{<<"B","a","c","k","g","r","o","u","n","d">>},
      {<<"G","D","P",":"," ">>, <<"$","2"," ">>, <<"1",".","5","%"," ","(","2","0","2","1"," ","e","s","t",".",")"," ">>, <<" ","|"," ">>, <<"p","r","o","s","e"," ">>, <<"s","i","z","e",":"," ",","," ","k","m"," ">>, <<" ">>,
       <<".",".","%"," ">>, <<"c","o","u","n","t","r","y"," ","c","o","m","p","a","r","i","s","o","n"," ","t","o"," ","t","h","e"," ","w","o","r","l","d",":"," ","4"," ">>, <<"3","0","0"," ","m","i","l","l","i","o","n"," ">>,
       <<"$","2",".","5"," ","t","r","i","l","l","i","o","n"," ">>, <<"a"," ","l","o","n","g"," ","p","r","o","s","e"," ","w","i","t","h","o","u","t"," ","n","u","m","b","e","r","s"," ">>, <<"7"," ","|"," ">>,
       <<"s","i","z","e",":"," ","3"," ","k","m"," ","|"," ">>}>> }

RECURSIVE Texts(_, _)
Texts(pieces, n) ==
  IF n = 0 THEN {<<>>} ELSE {t \o p : t \in Texts(pieces, n - 1), p \in pieces \cup {<<>>}}

InitRecord ==
  /\ fields \in {<<[field_id |-> 1, field_name |-> r[1], content |-> r[2], year |-> 1999]>> :
                   r \in UNION {k[1] \X Texts(k[2], MaxPieces) : k \in RecordKinds}}
  /\ store = <<>>
  /\ mappings = {}
  /\ pc = "canonicalize"
  /\ run = 1
  /\ canonical_map = {} /\ idx = 0 /\ batch = <<>> /\ calls = <<>> /\ produced = <<>>
  /\ firstOut = None
  /\ args = NoArgs /\ ret = None /\ log = <<>>

SpecRecord == InitRecord /\ [][Next]_vars

-----------------------------------------------------------------------------
(* Properties of the extraction batch *)

\* the input record of a field id, the rows of a field, the calls made for a field
FieldById(id) == fields[CHOOSE i \in DOMAIN fields : fields[i].field_id = id]
RowsFor(rows, id) == SelectSeq(rows, LAMBDA r : r.field_id = id)
CallsFor(id) == {k \in DOMAIN calls : calls[k].field_id = id}

C2_ExceptionPolicy ==
  /\ pc # "aborted"
  /\ \A k \in DOMAIN calls :
       calls[k].raised =>
         LET rows == RowsFor(produced, calls[k].field_id)
         IN  /\ Len(rows) = 1
             /\ rows[1].sub_field = <<"v","a","l","u","e">>
             /\ rows[1].numeric_val = None
             /\ rows[1].text_val =
                  Some(Take(FieldById(calls[k].field_id).content, MAX_TEXT_LEN))
  /\ pc = "done" =>
       \A i \in DOMAIN fields : fields[i].content # <<>> => CallsFor(fields[i].field_id) # {}

\* a completed run in which an extractor raised on a content longer than the bound, and a
\* later field was processed after it
C2_RaisedThenContinued ==
  /\ pc = "done"
  /\ \E k \in DOMAIN calls :
       /\ calls[k].raised
       /\ k < Len(calls)
       /\ Len(FieldById(calls[k].field_id).content) > MAX_TEXT_LEN
       /\ Len(Get(RowsFor(store, calls[k].field_id)[1].text_val)) = MAX_TEXT_LEN

\* the canonical name the mapping table gives a field name
MappedName(name) ==
  IF \E m \in mappings : m.original = name /\ ~m.is_noise
  THEN (CHOOSE m \in mappings : m.original = name /\ ~m.is_noise).canonical
  ELSE name

\* C3: a field is routed by its canonical name: to the extractor the registry holds for
\* that name if the name is a key of the registry, and to the generic fallback if not;
\* a field is dispatched once, and when its specialized extractor returns an empty
\* list no row is emitted for it.
C3_DispatchRule ==
  \A k \in DOMAIN calls :
    /\ calls[k].canonical = MappedName(FieldById(calls[k].field_id).field_name)
    /\ IF \E p \in FIELD_PARSERS : p[1] = calls[k].canonical
       THEN <<calls[k].canonical, calls[k].parser>> \in FIELD_PARSERS
            /\ calls[k].parser # "parse_generic"
       ELSE calls[k].parser = "parse_generic"
    /\ CallsFor(calls[k].field_id) = {k}
    /\ (calls[k].parser # "parse_generic" /\ ~calls[k].raised /\ calls[k].returned = 0)
         => RowsFor(produced, calls[k].field_id) = <<>>

\* a completed run in which a renamed field went to the extractor of its canonical name,
\* which returned nothing, and the store stayed empty
C3_SpecializedEmpty ==
  /\ pc = "done"
  /\ store = <<>>
  /\ \E k \in DOMAIN calls :
       /\ calls[k].canonical # FieldById(calls[k].field_id).field_name
       /\ calls[k].parser # "parse_generic"
       /\ ~calls[k].raised
       /\ calls[k].returned = 0

\* C4 as stated: every row an extractor or the dispatcher produces has at least one of
\* numeric_val and text_val populated.
C4_ValuePopulated ==
  \A k \in DOMAIN produced : IsSome(produced[k].numeric_val) \/ IsSome(produced[k].text_val)

\* C5 as stated: the rows produced for one field have pairwise distinct sub_field keys.
C5_SubFieldsDistinct ==
  \A j, k \in DOMAIN produced :
    (j # k /\ produced[j].field_id = produced[k].field_id)
      => produced[j].sub_field # produced[k].sub_field

\* C6: once a run has emptied the output store, every row in the store was produced by
\* the current run, in the order it was produced; when the run completes the store holds
\* the rows of the current run and no other.
C6_TruncateAndReplace ==
  /\ pc \in {"load", "fields", "done"} =>
       /\ Len(store) <= Len(produced)
       /\ \A k \in DOMAIN store : store[k] = produced[k]
  /\ pc = "load" => store = <<>>
  /\ pc = "done" => store = produced

\* a second run has completed: the rows the first run wrote were in the store when it
\* began, and the store now holds the rows of the second run
C6_SecondRunReplaced ==
  /\ pc = "done"
  /\ run = 2
  /\ IsSome(firstOut) /\ Get(firstOut) # <<>>
  /\ store = produced
  /\ Len(store) > BATCH_SIZE

-----------------------------------------------------------------------------
(* Properties of the Canonicalizer *)

\* the first rule, in the order of apply_rules, whose condition holds for a call
FirstRule(a) ==
  LET n == normalize_dashes(a.original)
  IN  IF a.original \in a.modern_names /\ a.original \notin RenameKeys THEN "identity"
      ELSE IF IsSome(n) /\ Get(n) \in RenameKeys \cup a.modern_names \cup ConsolidationKeys
        THEN "dash_format"
      ELSE IF a.original \in RenameKeys THEN "rename"
      ELSE IF a.original \in ConsolidationKeys THEN "consolidation"
      ELSE IF is_gov_body(a.original, a.use_count, a.first_year, a.last_year)
        THEN "government_body"
      ELSE IF a.original \in REGIONAL_ENTRIES \cup MISC_REFERENCE THEN "allow_list"
      ELSE IF is_noise(a.original, a.use_count, a.first_year, a.last_year) THEN "noise"
      ELSE "manual"

\* C8: the result of apply_rules is the one of the first rule, in the order identity,
\* dash normalization, known renames, consolidation, government body, allow-lists, noise,
\* manual, whose condition holds; a rename-table key that satisfies a noise heuristic is
\* mapped as a rename with is_noise false.
C8_FirstMatchWins ==
  IsSome(ret) =>
    LET r == Get(ret)
        rule == FirstRule(args)
    IN  /\ r.mapping_type =
             (IF rule \in {"government_body", "allow_list"} THEN "country_specific" ELSE rule)
        /\ r.is_noise = (rule = "noise")
        /\ rule \in {"identity", "consolidation", "allow_list", "noise", "manual"}
             => r.canonical = args.original
        /\ rule = "rename" => r.canonical = Lookup(KNOWN_RENAMES, args.original)
        /\ rule = "government_body" => r.canonical = <<"L","e","g","i","s","l","a","t","i","v","e"," ","b","r","a","n","c","h">>
        /\ ( /\ args.original \in RenameKeys
             /\ args.original \notin args.modern_names
             /\ normalize_dashes(args.original) = None
             /\ is_noise(args.original, args.use_count, args.first_year, args.last_year) )
             => r.mapping_type = "rename" /\ ~r.is_noise

\* a rename-table key that satisfies a noise heuristic has been mapped as a rename
C8_RenameBeatsNoise ==
  /\ IsSome(ret)
  /\ args.original \in RenameKeys
  /\ is_noise(args.original, args.use_count, args.first_year, args.last_year)
  /\ Get(ret).mapping_type = "rename"
  /\ ~Get(ret).is_noise

\* C9: for a name that is not identity-mapped and has a missing-space dash, the form
\* "left - right" is looked up in the rename table, then the modern vocabulary, then the
\* consolidation table; the first that holds it gives the result, of mapping_type
\* "dash_format"; "Economy-overview" and "Economy--overview" map to "Economic overview".
C9_DashCascade ==
  IsSome(ret) =>
    LET r == Get(ret)
        n == normalize_dashes(args.original)
        identity == args.original \in args.modern_names /\ args.original \notin RenameKeys
    IN  /\ (~identity /\ IsSome(n) /\ Get(n) \in RenameKeys)
             => r.mapping_type = "dash_format"
                /\ r.canonical = Lookup(KNOWN_RENAMES, Get(n))
        /\ (~identity /\ IsSome(n) /\ Get(n) \notin RenameKeys /\ Get(n) \in args.modern_names)
             => r.mapping_type = "dash_format" /\ r.canonical = Get(n)
        /\ ( /\ ~identity /\ IsSome(n) /\ Get(n) \notin RenameKeys
             /\ Get(n) \notin args.modern_names /\ Get(n) \in ConsolidationKeys )
             => /\ r.mapping_type = "dash_format"
                /\ r.canonical = Get(n)
                /\ r.consolidated_to = Some(Lookup(CONSOLIDATION_MAP, Get(n)))
        /\ (~identity /\ args.original \in {<<"E","c","o","n","o","m","y","-","o","v","e","r","v","i","e","w">>, <<"E","c","o","n","o","m","y","-","-","o","v","e","r","v","i","e","w">>})
             => /\ n = Some(<<"E","c","o","n","o","m","y"," ","-"," ","o","v","e","r","v","i","e","w">>)
                /\ r.mapping_type = "dash_format"
                /\ r.canonical = <<"E","c","o","n","o","m","i","c"," ","o","v","e","r","v","i","e","w">>

\* a dashed name whose reformatted form is both a rename-table key and a modern name has
\* been mapped to the rename table's target
C9_RenameBeforeModern ==
  /\ IsSome(ret)
  /\ IsSome(normalize_dashes(args.original))
  /\ Get(normalize_dashes(args.original)) \in RenameKeys \cap args.modern_names
  /\ Get(normalize_dashes(args.original)) # Lookup(KNOWN_RENAMES, Get(normalize_dashes(args.original)))
  /\ Get(ret).mapping_type = "dash_format"
  /\ Get(ret).canonical = Lookup(KNOWN_RENAMES, Get(normalize_dashes(args.original)))

\* C10: every key of the consolidation table that is not in the modern vocabulary is
\* mapped to itself as canonical name, with consolidated_to the table's parent aggregate,
\* mapping_type "consolidation" and is_noise false; "Oil - production" rolls up to "Petroleum".
C10_ConsolidationKeepsOriginal ==
  IsSome(ret) =>
    /\ (args.original \in ConsolidationKeys /\ args.original \notin args.modern_names)
         => /\ Get(ret).canonical = args.original
            /\ Get(ret).consolidated_to = Some(Lookup(CONSOLIDATION_MAP, args.original))
            /\ Get(ret).mapping_type = "consolidation"
            /\ ~Get(ret).is_noise
    /\ (args.original = <<"O","i","l"," ","-"," ","p","r","o","d","u","c","t","i","o","n">> /\ args.original \notin args.modern_names)
         => Get(ret).consolidated_to = Some(<<"P","e","t","r","o","l","e","u","m">>)

\* "Oil - production", absent from the modern vocabulary, has been mapped
C10_OilProduction ==
  /\ IsSome(ret)
  /\ args.original = <<"O","i","l"," ","-"," ","p","r","o","d","u","c","t","i","o","n">>
  /\ args.original \notin args.modern_names
  /\ Get(ret).canonical = <<"O","i","l"," ","-"," ","p","r","o","d","u","c","t","i","o","n">>
  /\ Get(ret).consolidated_to = Some(<<"P","e","t","r","o","l","e","u","m">>)


-----------------------------------------------------------------------------
(* Properties of the mapping rows *)

\* the condition of the consolidation branch of the dash rule, for a call
DashConsolidation(a) ==
  LET n == normalize_dashes(a.original)
  IN  /\ ~(a.original \in a.modern_names /\ a.original \notin RenameKeys)
      /\ IsSome(n)
      /\ Get(n) \notin RenameKeys
      /\ Get(n) \notin a.modern_names
      /\ Get(n) \in ConsolidationKeys

\* C11: consolidated_to is set in the rows of two rules and no other: the consolidation
\* rule (mapping_type "consolidation", the parent of the original name) and the
\* consolidation branch of the dash rule (mapping_type "dash_format", the parent of the
\* reformatted name).
C11_ParentOnlyForConsolidations ==
  IsSome(ret) =>
    LET r == Get(ret)
    IN  /\ IsSome(r.consolidated_to) <=>
             (r.mapping_type = "consolidation" \/ DashConsolidation(args))
        /\ r.mapping_type = "consolidation"
             => r.consolidated_to = Some(Lookup(CONSOLIDATION_MAP, args.original))
        /\ DashConsolidation(args)
             => /\ r.mapping_type = "dash_format"
                /\ r.consolidated_to =
                     Some(Lookup(CONSOLIDATION_MAP, Get(normalize_dashes(args.original))))

\* C11 as stated: consolidated_to is set only in rows of mapping_type "consolidation".
C11_ParentOnlyForTypeConsolidation ==
  IsSome(ret) =>
    (IsSome(Get(ret).consolidated_to) => Get(ret).mapping_type = "consolidation")

\* "Oil-production" has been mapped by the dash rule to "Oil - production", with its parent
C11_DashedSubField ==
  /\ IsSome(ret)
  /\ args.original = <<"O","i","l","-","p","r","o","d","u","c","t","i","o","n">>
  /\ Get(ret).mapping_type = "dash_format"
  /\ Get(ret).canonical = <<"O","i","l"," ","-"," ","p","r","o","d","u","c","t","i","o","n">>
  /\ Get(ret).consolidated_to = Some(<<"P","e","t","r","o","l","e","u","m">>)

\* the call of apply_rules that produced a mapping row of the corpus
CallOf(m) ==
  [original |-> m.original, first_year |-> m.first_year, last_year |-> m.last_year,
   use_count |-> m.use_count, modern_names |-> ModernNames(fields)]

\* C12: once the Canonicalizer has run, the mapping table holds exactly one row for every
\* distinct field name of the corpus and no row for any other name; a name that no rule
\* before the last matches is passed through with canonical name = original name,
\* mapping_type "manual", is_noise false and no consolidated_to.
C12_OneRowPerName ==
  pc # "canonicalize" =>
    /\ \A i \in DOMAIN fields :
         Cardinality({m \in mappings : m.original = fields[i].field_name}) = 1
    /\ \A m \in mappings : m.original \in FieldNamesOf(fields)
    /\ \A m \in mappings :
         FirstRule(CallOf(m)) = "manual"
           => /\ m.canonical = m.original
              /\ m.mapping_type = "manual"
              /\ ~m.is_noise
              /\ m.consolidated_to = None

\* a name used in two editions has one row, passed through as manual
C12_ManualRowOfTwoRecords ==
  /\ pc = "done"
  /\ Len(fields) = 2
  /\ fields[1].field_name = fields[2].field_name
  /\ fields[1].year # fields[2].year
  /\ \E m \in mappings :
       /\ mappings = {m}
       /\ m.mapping_type = "manual"
       /\ m.use_count = 2
       /\ m.first_year = 1999 /\ m.last_year = 2010

\* what a canonicalizer invocation returns besides its inputs
Outcome(r) == <<r.canonical, r.mapping_type, r.consolidated_to, r.is_noise, r.notes>>

\* the invocation with the inputs of the call made and another modern vocabulary
Reinvoke(vocabulary) ==
  apply_rules(args.original, args.first_year, args.last_year, args.use_count, vocabulary)

\* whether a vocabulary holds a name, or the reformatted form of a dashed name
Holds(vocabulary, name) ==
  <<name \in vocabulary,
    IsSome(normalize_dashes(name)) /\ Get(normalize_dashes(name)) \in vocabulary>>

\* a vocabulary with one name added, or removed if it was there
Toggle(vocabulary, name) ==
  IF name \in vocabulary THEN vocabulary \ {name} ELSE vocabulary \cup {name}

\* C13: two canonicalizer invocations that agree on (original_name, first_year, last_year,
\* use_count) return the same canonical_name, mapping_type, consolidated_to, is_noise and
\* notes whenever their modern vocabularies agree on whether they hold the original name
\* and whether they hold its dash-reformatted form; the rest of the corpus has no other
\* influence.  Stated for vocabularies that differ in one name: any two vocabularies
\* that agree on the two memberships are joined by such steps.
C13_PureGivenVocabulary ==
  IsSome(ret) =>
    \A name \in ModernPool :
      Holds(Toggle(args.modern_names, name), args.original)
          = Holds(args.modern_names, args.original)
        => Outcome(Reinvoke(Toggle(args.modern_names, name))) = Outcome(Get(ret))

\* C13 as stated: two invocations that agree on the four inputs return the same result
\* whatever the rest of the corpus, and so the modern vocabulary, contains.
C13_PureInFourInputs ==
  IsSome(ret) =>
    \A vocabulary \in SUBSET ModernPool :
      Outcome(Reinvoke(vocabulary)) = Outcome(Get(ret))

\* a call whose result another vocabulary changes, and a vocabulary that differs from
\* the call's without changing it
C13_VocabularyMatters ==
  /\ IsSome(ret)
  /\ args.original = <<"O","i","l"," ","-"," ","p","r","o","d","u","c","t","i","o","n">>
  /\ args.modern_names = {<<"U","S">>}
  /\ Get(ret).mapping_type = "consolidation"
  /\ Reinvoke({<<"O","i","l"," ","-"," ","p","r","o","d","u","c","t","i","o","n">>}).mapping_type = "identity"
  /\ Outcome(Reinvoke({<<"T","o","t","a","l"," ","a","r","e","a">>, <<"U","S">>})) = Outcome(Get(ret))

\* the canonical name apply_rules gives the canonical name of the call made, under the
\* same modern vocabulary and the usage statistics s
Recanonicalized(s) ==
  apply_rules(Get(ret).canonical, s.first_year, s.last_year, s.use_count,
              args.modern_names).canonical

\* C14: if apply_rules maps a name to canonical name c, and the modern vocabulary holds
\* no dash-reformatted form of c, then apply_rules maps c to c under the same vocabulary
\* and the same usage statistics, and under any usage statistics when c is not the
\* original name; no rename-table target is renamed to a different name.
C14_IdempotentOnResults ==
  IsSome(ret) =>
    LET c == Get(ret).canonical
    IN  /\ ~Holds(args.modern_names, c)[2]
             => /\ Recanonicalized(args) = c
                /\ c # args.original => \A s \in IdemStats : Recanonicalized(s) = c
        /\ (args.original \in RenameKeys /\ c \in RenameKeys)
             => Lookup(KNOWN_RENAMES, c) = c

\* C14 as stated: apply_rules maps c to c under the same vocabulary with any usage
\* statistics.
C14_IdempotentForAnyStatistics ==
  IsSome(ret) => \A s \in IdemStats : Recanonicalized(s) = Get(ret).canonical

\* a rename-table key mapped to its target, which is mapped to itself whatever the
\* statistics
C14_TargetIsFixed ==
  /\ IsSome(ret)
  /\ args.original = <<"T","o","t","a","l"," ","a","r","e","a">>
  /\ Get(ret).mapping_type = "rename"
  /\ Get(ret).canonical = <<"A","r","e","a">>
  /\ \A s \in IdemStats : Recanonicalized(s) = <<"A","r","e","a">>

\* C15: every two-character all-uppercase field name with use_count <= 5 that is not in
\* the modern vocabulary is mapped with is_noise true, mapping_type "noise" and its
\* canonical name unchanged, for all values of first_year and last_year.
C15_CountryCodeIsNoise ==
  ( /\ IsSome(ret)
    /\ Len(args.original) = 2
    /\ IsUpperStr(args.original)
    /\ args.use_count <= 5
    /\ args.original \notin args.modern_names )
    => /\ Get(ret).is_noise
       /\ Get(ret).mapping_type = "noise"
       /\ Get(ret).canonical = args.original

\* C15 as stated: every two-character all-uppercase field name with use_count <= 5 is
\* mapped with is_noise true.
C15_EveryCountryCodeIsNoise ==
  ( /\ IsSome(ret)
    /\ Len(args.original) = 2
    /\ IsUpperStr(args.original)
    /\ args.use_count <= 5 )
    => /\ Get(ret).is_noise
       /\ Get(ret).mapping_type = "noise"
       /\ Get(ret).canonical = args.original

\* a two-character upper-case name with a digit, used five times until 2002, is noise
C15_CodeWithDigit ==
  /\ IsSome(ret)
  /\ args.original = <<"A","1">>
  /\ args.use_count = 5
  /\ args.last_year = 2002
  /\ Get(ret).is_noise

-----------------------------------------------------------------------------
(* Properties of the series extractors and of the generic fallback *)

\* the content of a call as its extractor sees it, and the occurrences of the monetary
\* pattern in it whose literal converts to a number
Normalized(k) == normalize_content(FieldById(calls[k].field_id).content)
Convertible(ms) == SelectSeq(ms, LAMBDA m : FloatOK(RemoveCommas(m.num)))

\* C16 as stated: for content with a "country comparison to the world: N" annotation
\* and a monetary series, exactly one returned row carries rank = N, the row of the
\* first occurrence; every other row has rank unset.
C16_RankOnFirstOccurrence ==
  \A k \in DOMAIN calls :
    LET content == FieldById(calls[k].field_id).content
        ms == Convertible(DollarMatches(Normalized(k), 1))
        rows == RowsFor(produced, calls[k].field_id)
    IN  ( /\ calls[k].parser = "parse_multi_year_dollar"
          /\ IsSome(extract_rank(content))
          /\ ms # <<>> )
          => /\ Cardinality({j \in DOMAIN rows : IsSome(rows[j].rank)}) = 1
             /\ rows[1].rank = extract_rank(content)
             /\ rows[1].source_frag =
                  Some(Take(Sub(Normalized(k), ms[1].start, ms[1].stop - 1), MAX_FRAG_LEN))

\* the rows of a series, without the trailing note row
SeriesRows(k) == SelectSeq(RowsFor(produced, calls[k].field_id), LAMBDA r : r.sub_field # <<"n","o","t","e">>)
\* the occurrences of the series pattern in the content of call k, left to right
Occurrences(k) ==
  IF calls[k].parser = "parse_multi_year_dollar" THEN DollarMatches(Normalized(k), 1)
  ELSE PctMatches(Normalized(k), 1)
\* the positions of the occurrences whose literal converts to a number
Converting(k) ==
  With(Occurrences(k), LAMBDA ms :
    {i \in DOMAIN ms :
       FloatOK(IF calls[k].parser = "parse_multi_year_dollar"
               THEN RemoveCommas(ms[i].num) ELSE ms[i].num)})
Nth(S, j) == CHOOSE i \in S : Cardinality({x \in S : x < i}) = j - 1
SeriesCalls == {k \in DOMAIN calls :
                  calls[k].parser \in {"parse_multi_year_dollar", "parse_multi_year_pct"}}

C17_SecondWithoutYear ==
  \E k \in SeriesCalls :
    /\ Len(SeriesRows(k)) = 2
    /\ SeriesRows(k)[2].sub_field = <<"v","a","l","u","e","_","1">>

\* the calls of the generic fallback on content none of whose segments is a
\* "label: value" pair or starts with a number
Unmatched == {k \in DOMAIN calls :
                /\ calls[k].parser = "parse_generic"
                /\ With(GenericParts(Normalized(k)), LAMBDA segs :
                          \A i \in DOMAIN segs : /\ ~LabelValue(segs[i]).ok
                                                 /\ ~LeadingNumber(Strip(segs[i])).ok)}

C18_BlankContent ==
  \E k \in Unmatched :
    /\ FieldById(calls[k].field_id).content # <<>>
    /\ Normalized(k) = <<>>
    /\ produced = <<>>

\* the power of ten of the magnitude word that follows position p of s, if any
MagnitudeAfter(s, p) ==
  LET a == Span(s, p, SpaceSet)
  IN  IF StartsAtCI(s, a, <<"t","r","i","l","l","i","o","n">>) THEN 12
      ELSE IF StartsAtCI(s, a, <<"b","i","l","l","i","o","n">>) THEN 9
      ELSE IF StartsAtCI(s, a, <<"m","i","l","l","i","o","n">>) THEN 6
      ELSE IF StartsAtCI(s, a, <<"t","h","o","u","s","a","n","d">>) THEN 3
      ELSE 0

\* the monetary series scales every literal by the magnitude word that follows it
C19_DollarSeriesScaled ==
  \A k \in DOMAIN calls :
    calls[k].parser = "parse_multi_year_dollar" =>
      \A j \in 1..Cardinality(Converting(k)) :
        LET m == Occurrences(k)[Nth(Converting(k), j)]
        IN  SeriesRows(k)[j].numeric_val =
              Some(Scale(Float(RemoveCommas(m.num)),
                         MagnitudeAfter(Normalized(k), m.start + 1 + Len(m.num))))

\* the generic fallback scales a leading number by the magnitude word that follows it
C19_FallbackScaled ==
  \A k \in DOMAIN calls :
    LET c == Normalized(k)
        nm == LeadingNumber(c)
        rows == RowsFor(produced, calls[k].field_id)
    IN  ( /\ calls[k].parser = "parse_generic"
          /\ GenericParts(c) = <<c>>
          /\ ~LabelValue(c).ok
          /\ nm.ok /\ IsSome(parse_number(nm.num)) )
          => /\ Len(rows) = 1
             /\ rows[1].numeric_val =
                  Some(Scale(Get(parse_number(nm.num)), MagnitudeAfter(nm.rest, 1)))

\* C19 as stated: a numeric_val taken from a literal that is followed by a magnitude
\* word is the literal times 1e3, 1e6, 1e9 or 1e12, and the literal itself when no
\* magnitude word follows, in the dollar series and in the generic fallback.
C19_MagnitudeScaling == C19_DollarSeriesScaled /\ C19_FallbackScaled

\* C20 as stated: when a fragment matched by the pattern of a series extractor does not
\* convert to a number, the extractor does not raise, the field does not take the
\* exception path of the dispatcher, and the rows of the other occurrences are emitted.
C20_UnparseableOmitted ==
  \A k \in SeriesCalls :
    Converting(k) # DOMAIN Occurrences(k) =>
      /\ ~calls[k].raised
      /\ Len(SeriesRows(k)) = Cardinality(Converting(k))
      /\ \A j \in 1..Cardinality(Converting(k)) :
           LET m == Occurrences(k)[Nth(Converting(k), j)]
           IN  SeriesRows(k)[j].source_frag =
                 Some(Take(Sub(Normalized(k), m.start, m.stop - 1), MAX_FRAG_LEN))

-----------------------------------------------------------------------------
(* Properties of the labelled sub-values, of the dispatch and of the batches *)

\* "<label>: <number>" stands at position p of s and is no part of a longer word
StandaloneAt(s, p, label) ==
  /\ LabelNumAt(s, p, label).ok
  /\ (p = 1 \/ CharAt(s, p - 1) \notin AlphaSet)
PopulationCalls == {k \in DOMAIN calls : calls[k].parser = "parse_population"}

\* C21 as stated: the population extractor returns a row for each of the labelled
\* sub-patterns total, male, female that is present in the content, whichever of the
\* others are absent.
C21_PresentSubPatternsExtracted ==
  \A k \in PopulationCalls :
    \A label \in {<<"t","o","t","a","l">>, <<"m","a","l","e">>, <<"f","e","m","a","l","e">>} :
      (\E p \in 1..Len(Normalized(k)) : StandaloneAt(Normalized(k), p, label))
        => \E j \in DOMAIN produced : produced[j].sub_field = label

\* C22 as stated: no emitted sub_field contains a space or an upper-case letter (the
\* keys that are derived from a label of the content are lower-cased, with underscores
\* for spaces).
C22_KeysNormalized ==
  \A j \in DOMAIN produced :
    \A i \in DOMAIN produced[j].sub_field :
      produced[j].sub_field[i] \notin {" "} \cup UpperSet

\* the keys of the generic fallback alone
C22_GenericKeysNormalized ==
  \A j \in DOMAIN produced :
    calls[1].parser = "parse_generic" =>
      \A i \in DOMAIN produced[j].sub_field :
        produced[j].sub_field[i] \notin {" "} \cup UpperSet

\* what the dispatcher makes of one field, given the mapping table
RowsOf(f) ==
  IF f.content = <<>> THEN <<>>
  ELSE TryParse(ParserFor(Canonical(LoadCanonicalMap(mappings), f.field_name)),
                f.field_id, f.content).rows
Renumbered(rows, id) == [j \in DOMAIN rows |-> [rows[j] EXCEPT !.field_id = id]]
SetOf(rows) == {rows[j] : j \in DOMAIN rows}

ProgressLines == {"Cleared existing FieldValues data.", "Loaded field name mappings.",
                  "Processing years", "year", "COMPLETE"}

\* C24 as stated: whenever an extractor raises and the field is degraded to a single
\* text row, an entry of the log records the failure (it is none of the progress lines,
\* which name no field and no exception).
C24_FailureLogged ==
  \A k \in DOMAIN calls :
    calls[k].raised => \E i \in DOMAIN log : log[i].line \notin ProgressLines

\* the calls of the generic fallback that returned, on content that is not blank
GenericCalls == {k \in DOMAIN calls : /\ calls[k].parser = "parse_generic"
                                      /\ ~calls[k].raised
                                      /\ Normalized(k) # <<>>}
\* the segments of call k, and the positions of those that match the label pattern
Segments(k) == GenericParts(Normalized(k))
Labelled(k) == {i \in DOMAIN Segments(k) : LabelValue(Segments(k)[i]).ok}
\* a segment without a label that starts with a number that converts
BareNumber(seg) ==
  /\ ~LabelValue(seg).ok
  /\ LeadingNumber(Strip(seg)).ok
  /\ IsSome(parse_number(LeadingNumber(Strip(seg)).num))
BareNumberAt(k, i) == i \in DOMAIN Segments(k) /\ BareNumber(Segments(k)[i])

\* C25: in the generic fallback every labelled segment gives one row, and the segments
\* without a label give at most one row between them: a bare "value" row, the first row
\* of the field, that exists only when no segment before it gave a row; every later
\* segment without a label gives nothing.
C25_AtMostOneBareRow ==
  \A k \in GenericCalls :
    With(Segments(k), LAMBDA segs :
    With(RowsFor(produced, calls[k].field_id), LAMBDA rows :
    With(SelectSeq([i \in DOMAIN segs |-> i], LAMBDA i : LabelValue(segs[i]).ok),
         LAMBDA labelled :
    With(SelectSeq([i \in DOMAIN segs |-> i], LAMBDA i : BareNumber(segs[i])),
         LAMBDA bare :
      LET n == Len(labelled)
          first == {i \in SetOf(bare) : \A j \in 1..(i - 1) : j \notin SetOf(labelled \o bare)}
      IN  /\ Len(rows) \in {n, n + 1}
          /\ (n > 0 /\ first = {}) => Len(rows) = n
          /\ (n > 0 /\ first # {}) =>
               /\ Len(rows) = n + 1
               /\ rows[1].sub_field = <<"v","a","l","u","e">>
               /\ \E i \in first : rows[1].source_frag = Some(Take(segs[i], MAX_FRAG_LEN))
          /\ \A j \in 1..n :
               n > 0 => rows[Len(rows) - n + j].source_frag
                          = Some(Take(segs[labelled[j]], MAX_FRAG_LEN))))))

\* a segment that starts with a number has followed a segment that gave a row, and has
\* given none itself
C25_LaterBareSegmentSkipped ==
  \E k \in GenericCalls :
    /\ Len(Segments(k)) = 2
    /\ BareNumberAt(k, 2)
    /\ Len(RowsFor(produced, calls[k].field_id)) = 1

\* C26: while main processes the fields, the rows inserted so far followed by the pending
\* batch are exactly the rows produced, each once and in production order; the pending
\* batch never holds BATCH_SIZE rows, the store grows by whole batches, and when the run
\* completes the batch is empty and the store holds every produced row.
C26_ExactlyOnce ==
  /\ pc = "fields" =>
       /\ store \o batch = produced
       /\ Len(batch) < BATCH_SIZE
       /\ Len(store) = BATCH_SIZE * (Len(produced) \div BATCH_SIZE)
  /\ pc = "done" =>
       /\ batch = <<>>
       /\ store = produced
       /\ \A j \in DOMAIN produced :
            Cardinality({i \in DOMAIN store : store[i] = produced[j]})
              = Cardinality({i \in DOMAIN produced : produced[i] = produced[j]})

\* a run is done in which a full batch was inserted inside the loop and a remainder by
\* the final flush
C26_BoundaryAndRemainder ==
  /\ pc = "done"
  /\ run = 1
  /\ Len(produced) > BATCH_SIZE
  /\ Len(produced) % BATCH_SIZE # 0
  /\ Len(store) = Len(produced)

\* the names of the corpus that the mapping table flags as noise
NoiseNames == {m.original : m \in {x \in mappings : x.is_noise}}

\* C27: a field whose name the mapping table flags as noise has no entry in the canonical
\* map of the dispatcher; a field of that name with non-empty content is dispatched under
\* its own name, to the extractor the registry gives that name, and its rows are stored
\* like those of any other field.
C27_NoiseStillExtracted ==
  /\ pc \in {"fields", "done"} =>
       \A name \in NoiseNames : \A p \in canonical_map : p[1] # name
  /\ \A k \in DOMAIN calls :
       LET f == FieldById(calls[k].field_id)
       IN  f.field_name \in NoiseNames =>
             /\ calls[k].canonical = f.field_name
             /\ calls[k].parser = ParserFor(f.field_name)
             /\ RowsFor(produced, f.field_id)
                  = TryParse(ParserFor(f.field_name), f.field_id, f.content).rows
  /\ pc = "done" =>
       \A i \in DOMAIN fields :
         (fields[i].field_name \in NoiseNames /\ fields[i].content # <<>>)
           => /\ CallsFor(fields[i].field_id) # {}
              /\ RowsFor(store, fields[i].field_id) = RowsFor(produced, fields[i].field_id)

\* a run is done in which a field of a name flagged as noise has its rows in the store
C27_NoiseFieldStored ==
  /\ pc = "done"
  /\ \E i \in DOMAIN fields :
       /\ fields[i].field_name \in NoiseNames
       /\ Len(RowsFor(store, fields[i].field_id)) >= 2

\* the registry keys that the rename table maps to another name
RenamedKeys == {k \in ParserKeys \cap RenameKeys : Lookup(KNOWN_RENAMES, k) # k}

\* C28: every extractor-registry key that the rename table maps to another name has a
\* target that is a registry key of the same extractor, and a field of such a name is
\* dispatched to the extractor of its original name, with the rows that extractor gives.
C28_DispatchInvariantUnderRenaming ==
  /\ \A k \in RenamedKeys :
       /\ Lookup(KNOWN_RENAMES, k) \in ParserKeys
       /\ Lookup(FIELD_PARSERS, Lookup(KNOWN_RENAMES, k)) = Lookup(FIELD_PARSERS, k)
  /\ \A c \in DOMAIN calls :
       LET f == FieldById(calls[c].field_id)
       IN  f.field_name \in RenamedKeys =>
             /\ calls[c].parser = ParserFor(f.field_name)
             /\ RowsFor(produced, f.field_id)
                  = TryParse(ParserFor(f.field_name), f.field_id, f.content).rows

\* a field whose name is a renamed registry key has been dispatched under its canonical
\* name and has given rows
C28_RenamedKeyDispatched ==
  \E c \in DOMAIN calls :
    /\ FieldById(calls[c].field_id).field_name \in RenamedKeys
    /\ calls[c].canonical = Lookup(KNOWN_RENAMES, FieldById(calls[c].field_id).field_name)
    /\ calls[c].canonical # FieldById(calls[c].field_id).field_name
    /\ RowsFor(produced, calls[c].field_id) # <<>>

\* C29 as stated: the value of the male row of the population extractor is the number
\* that follows a standalone "male:" of the content, whatever the order of the labels
\* and also when "male:" is absent.
C29_MaleRowFromMaleLabel ==
  \A k \in PopulationCalls :
    \A j \in DOMAIN produced :
      produced[j].sub_field = <<"m","a","l","e">> =>
        \E p \in 1..Len(Normalized(k)) :
          /\ StandaloneAt(Normalized(k), p, <<"m","a","l","e">>)
          /\ produced[j].numeric_val = parse_number(LabelNumAt(Normalized(k), p, <<"m","a","l","e">>).num)

NaturalGasCalls == {k \in DOMAIN calls : calls[k].parser = "parse_natural_gas"}

\* the match of the legacy shape in the content of call k, 0 when there is none or when
\* the modern shape has matched
LegacyGasMatch(k) ==
  IF GasModernRows(calls[k].field_id, Normalized(k), 1) # Returned(<<>>) THEN 0
  ELSE Search(Normalized(k), LAMBDA p : GasLegacyAt(Normalized(k), p).ok)

\* the power of ten of the magnitude word inside the fragment c[start..stop-1]
GasMagnitude_of_fragment(c, start, stop) ==
  IF Contains(Sub(c, start, stop - 1), <<"b","i","l","l","i","o","n">>) THEN 9
  ELSE IF Contains(Sub(c, start, stop - 1), <<"m","i","l","l","i","o","n">>) THEN 6
  ELSE 0

\* C30 as stated: in the legacy shape of the natural-gas extractor the value is scaled by
\* the magnitude word of its own matched fragment and by nothing else: a "million" or
\* "billion" that stands elsewhere in the content before the match does not scale it.
C30_MagnitudeFromOwnFragment ==
  \A k \in NaturalGasCalls :
    LET c == Normalized(k)
        p == LegacyGasMatch(k)
        m == GasLegacyAt(c, IF p = 0 THEN 1 ELSE p)
    IN  (p # 0 /\ parse_number(m.num) # None) =>
          /\ Len(produced) = 1
          /\ produced[1].numeric_val
               = Some(Scale(Get(parse_number(m.num)), GasMagnitude_of_fragment(c, p, m.stop)))
=============================================================================
